---- MODULE Spec2Model ----
(***************************************************************************)
(* The update orchestrator of the hitokoto content worker.                 *)
(*                                                                         *)
(* Three revisions of the worker are modelled side by side; `impl` says    *)
(* which one is deployed:                                                  *)
(*   "three"  src/unnamed/part_000 lines 570-921  (PRIMARY/FALLBACK/FINAL) *)
(*   "two"    src/unnamed/part_000 lines 240-567  (PRIMARY/FALLBACK)       *)
(*   "index"  src/src/index.js                    (run_update_with_retries)*)
(*                                                                         *)
(* A run is one call of the orchestrator.  Every `await` of the code is a  *)
(* suspension point: the run's `pc` names the call it is suspended in, and *)
(* one action resumes it with the answer of the external service.          *)
(***************************************************************************)
EXTENDS Integers, Sequences, FiniteSets, TLC

VARIABLES
    impl,    \* which revision of the worker is deployed
    env,     \* the secrets bound to the worker (TRUE: the secret is set)
    cache,   \* env.TEXT_CACHE under the fixed key: <<>> (absent) or <<text>>
    run,     \* run[r]: the local variables of run r of the orchestrator
    hist,    \* hist[r]: history of run r (what it called, in which order)
    http,    \* the HTTP request being handled, or the last one handled
    sched    \* the scheduled handler and the promise it gave to ctx.waitUntil

vars == <<impl, env, cache, run, hist, http, sched>>

----------------------------------------------------------------------------
(* Bounds and program constants *)

\* longest raw text an LLM answers with, in characters
MaxTextLen == 2

\* failed attempts two overlapping runs are followed for
MaxOverlapFailures == 1

\* RETRY_CONFIG.MAX_ATTEMPTS and DELAY_SECONDS of the three-tier revision
MAX_ATTEMPTS == 8
DELAY_SECONDS == 2

\* RETRY_CONFIG of the two-tier revision
MAX_ATTEMPTS2 == 4
DELAY_SECONDS2 == 4

\* RETRY_ATTEMPTS of index.js
RETRY_ATTEMPTS == 16

Runs == {"cron", "manual"}

Chars == {" ", "a"}
Whitespace == {" "}

\* the raw texts an LLM may answer with, the empty text included
RawTexts == UNION {[1..n -> Chars] : n \in 0..MaxTextLen}

\* bodies the prompt source answers with
PromptTexts == {"seed phrase", "other phrase"}

\* HTTP statuses of the external services
OkStatuses == {200}
ErrorStatuses == {400, 429, 500}
PromptErrorStatuses == {429, 503}
FinishReasons == {"content_filter"}
GeminiFinishReasons == {"SAFETY", "MAX_TOKENS"}

\* options: <<>> is null / undefined / absent, <<v>> is the value v
None == << >>
Some(v) == <<v>>

----------------------------------------------------------------------------
(* Pure functions of the code *)

\* mutant of ResponseOk: only a server error counts as a failure
ResponseOk_Lenient(status) == status < 500

\* response.ok of the fetch API: a status in the range 200-299
ResponseOk(status) == status >= 200 /\ status <= 299

RECURSIVE TrimStart(_)
TrimStart(s) ==
    IF s = << >> THEN s
    ELSE IF Head(s) \in Whitespace THEN TrimStart(Tail(s)) ELSE s

RECURSIVE TrimEnd(_)
TrimEnd(s) ==
    IF s = << >> THEN s
    ELSE IF s[Len(s)] \in Whitespace THEN TrimEnd(SubSeq(s, 1, Len(s) - 1)) ELSE s

\* String.prototype.trim
Trim(s) == TrimEnd(TrimStart(s))

\* !content of JavaScript: undefined, null and "" are falsy
Falsy(opt) == opt = None \/ Len(opt[1]) = 0

\* finishReason || "...": a finish_reason that is absent (or empty) is falsy
NoReason(opt) == opt = None

\* An Error: its message (text, the status code printed in it, a detail and
\* the messages it quotes) and the statusCode property, when one was attached.
Message(text, code, detail, causes) ==
    [text |-> text, code |-> code, detail |-> detail, causes |-> causes]

Error(message, statusCode) == [message |-> message, statusCode |-> statusCode]

\* MODEL_REGISTRY of the three-tier revision: the secret each tier reads
MODEL_REGISTRY ==
    [PRIMARY  |-> [id |-> "gemini-3-flash-preview", apiKeyEnv |-> "GEMINI_API_KEY"],
     FALLBACK |-> [id |-> "gemini-2.5-flash",       apiKeyEnv |-> "GEMINI_API_KEY"],
     FINAL    |-> [id |-> "gpt-4.1",                apiKeyEnv |-> "GITHUB_API_KEY"]]

\* the answers of the prompt source and of an LLM endpoint
PromptResponses ==
    [status : OkStatuses, text : PromptTexts]
    \cup [status : PromptErrorStatuses, text : {""}]

LLMResponses ==
    [status : ErrorStatuses, content : {None}, finish_reason : {None}]
    \cup [status : OkStatuses,
          content : {None} \cup {Some(t) : t \in RawTexts},
          finish_reason : {None} \cup {Some(f) : f \in FinishReasons}]

\* the errors fetchRemotePrompt throws
MissingTokenError ==
    Error(Message("Missing UPDATE_TOKEN environment variable.", None, "", << >>), None)

PromptFetchError(status) ==
    Error(Message("Remote prompt fetch failed", Some(status), "", << >>), Some(status))

\* the answers of the Gemini endpoint index.js calls: the text is
\* candidates[0].content.parts[0].text
GeminiResponses ==
    [status : ErrorStatuses, text : {None}, finishReason : {None}]
    \cup [status : OkStatuses,
          text : {None} \cup {Some(t) : t \in RawTexts},
          finishReason : {None} \cup {Some(f) : f \in GeminiFinishReasons}]

\* the error callOpenAIStyleAPI throws when the tier's secret is not set
\* the error generateAndCacheContent throws for a key MODEL_REGISTRY lacks;
\* generate_text_with_llm of index.js throws the like for MODEL_CONFIG
UnknownModelError(modelKey) ==
    Error(Message("Model configuration not found", None, modelKey, << >>), None)

ApiKeyError(apiKeyEnv) ==
    Error(Message("API Key not found for environment variable", None, apiKeyEnv, << >>),
          None)

\* the error callOpenAIStyleAPI throws for a response, None when it returns
callOpenAIStyleAPI_Error(resp) ==
    IF ~ResponseOk(resp.status)
    THEN Some(Error(Message("API Request Failed", Some(resp.status), "", << >>),
                    Some(resp.status)))
    ELSE IF Falsy(resp.content)
    THEN Some(Error(Message(IF NoReason(resp.finish_reason)
                            THEN "Unknown error (no content returned)"
                            ELSE resp.finish_reason[1],
                            None, "", << >>), None))
    ELSE None

\* what callOpenAIStyleAPI returns for a response it accepts
callOpenAIStyleAPI_Result(resp) == Trim(resp.content[1])

\* the error a rejected env.TEXT_CACHE.put throws (no statusCode property)
PutError == Error(Message("KV put failed", None, "", << >>), None)

\* mutant of EscalatedKey: the loop escalates to a tier the registry lacks
EscalatedKey_Unregistered(currentModelKey, error) ==
    IF currentModelKey = "PRIMARY" /\ error.statusCode = Some(429)
    THEN "SECONDARY"
    ELSE currentModelKey

\* mutant of EscalatedKey: any other failure selects PRIMARY again
EscalatedKey_Resets(currentModelKey, error) ==
    IF error.statusCode = Some(429) THEN "FALLBACK" ELSE "PRIMARY"

\* mutant of EscalatedKey: server errors escalate too (the two-tier rule)
EscalatedKey_ServerErrors(currentModelKey, error) ==
    IF /\ currentModelKey = "PRIMARY"
       /\ error.statusCode # None
       /\ (error.statusCode[1] = 429 \/ error.statusCode[1] >= 500)
    THEN "FALLBACK"
    ELSE currentModelKey

\* the escalation rule of the three-tier catch block
EscalatedKey(currentModelKey, error) ==
    IF currentModelKey = "PRIMARY" /\ error.statusCode = Some(429)
    THEN "FALLBACK"
    ELSE currentModelKey

\* mutant of WaitsBeforeRetry: the loop waits after its last attempt too
WaitsBeforeRetry_Always(attempt) == DELAY_SECONDS > 0

\* the wait of the three-tier catch block
WaitsBeforeRetry(attempt) == attempt < MAX_ATTEMPTS /\ DELAY_SECONDS > 0

\* mutant of LoopContinues: the loop stops one iteration early
LoopContinues_OffByOne(attempt) == attempt < MAX_ATTEMPTS

\* the loop condition of Stage 1
LoopContinues(attempt) == attempt <= MAX_ATTEMPTS

\* the errors executeResilientUpdate throws
CriticalDependencyFailure(fetchErr) ==
    Error(Message("Critical Dependency Failure: Unable to fetch prompt.",
                  None, "", <<fetchErr.message>>), None)

ExhaustedAllStrategies(lastError, finalError) ==
    Error(Message("CRITICAL FAILURE: All strategies exhausted.", None, "",
                  <<IF lastError = None THEN Message("undefined", None, "", << >>)
                    ELSE lastError[1].message,
                    finalError.message>>), None)

----------------------------------------------------------------------------
(* State *)

IdleRun ==
    [pc |-> "idle", stage |-> "none", currentModelKey |-> "PRIMARY",
     attempt |-> 0, lastError |-> None, dynamicPrompt |-> None,
     modelKey |-> "PRIMARY", generatedContent |-> None,
     result |-> None, thrown |-> None]

\* The history of a run.  It is written from what the run sends and receives,
\* never from what the run decides:
\*   promptCalls      calls of the function that fetches the prompt
\*   promptRequests   requests sent to the prompt source
\*   promptResponses  the responses the prompt source gave (three-tier only)
\*   attempts         the attempts made: the tier each one was given
\*   llmRequests      requests sent to an LLM endpoint
\*   userDynamics     the dynamic prompts handed to the LLM client
\*                    (three-tier only)
\*   puts             the texts the store applied for this run, in order
\*   failures         attempts that threw
\*   lastFailure      the error of the latest attempt that threw
\*                    (three-tier only)
\*   promptFailures   prompt fetches that threw
\*   escalatedAt      number of the first attempt on PRIMARY that threw with
\*                    status code 429 (0: none did)
\*   errAtLast        the error of the failure whose number is the attempt limit
\*   errFinal         the error of the failure after that one
\*   cacheAtStart     the cache when the run started
\*   succeededAt      number of the attempt whose put was acknowledged
\*   putSeq           for each of these puts, its number among the puts the
\*                    store applied for all runs
\*   delays           timers of the retry delay that fired
\*   unknownTier      an attempt threw because its tier is no key of the
\*                    registry
\*   llmOverloaded    an LLM endpoint answered with status 429 or 5xx
\*                    (index.js and two-tier only)
NoHistory ==
    [promptCalls |-> 0, promptRequests |-> 0, promptResponses |-> {},
     attempts |-> << >>, llmRequests |-> 0, userDynamics |-> {},
     puts |-> << >>, failures |-> 0, lastFailure |-> None, promptFailures |-> 0,
     escalatedAt |-> 0,
     errAtLast |-> None, errFinal |-> None,
     cacheAtStart |-> None, succeededAt |-> 0, llmOverloaded |-> FALSE,
     putSeq |-> << >>, delays |-> 0, unknownTier |-> FALSE]

\* The request being handled: pc says where its handler is, request and
\* response are what was received and answered; cacheBefore (the cache when
\* the request arrived), gets (calls of env.TEXT_CACHE.get) and readOutcome
\* (how the store answered) are history.  No request has been received:
NoRequest ==
    [pc |-> "idle", request |-> None, response |-> None, cacheBefore |-> None, gets |-> 0,
     readOutcome |-> "none"]

\* The scheduled handler: pc is "returned" once the handler has returned;
\* waitUntil is the promise it handed to ctx.waitUntil ("none" before that,
\* then "pending", then "fulfilled" or "rejected"); log holds what the
\* callbacks chained on the run's promise wrote.  The trigger has not fired:
NotScheduled == [pc |-> "idle", waitUntil |-> "none", log |-> << >>]

Environments ==
    [UPDATE_TOKEN : BOOLEAN, GEMINI_API_KEY : BOOLEAN, GITHUB_API_KEY : BOOLEAN]

\* the cache before the run: never written, or the text of an earlier run
InitialCaches == {None, Some(<<"z">>)}

\* the two older revisions read no GITHUB_API_KEY
EnvironmentsOf(revision) ==
    IF revision = "three" THEN Environments
    ELSE {e \in Environments : ~e.GITHUB_API_KEY}

InitOf(revisions) ==
    /\ impl \in revisions
    /\ env \in EnvironmentsOf(impl)
    /\ cache \in InitialCaches
    /\ run = [r \in Runs |-> IdleRun]
    /\ hist = [r \in Runs |-> NoHistory]
    /\ http = NoRequest
    /\ sched = NotScheduled

Init == InitOf({"three"})

Terminal(r) == run[r].pc \in {"returned", "threw"}

\* an answer that tells of rate limiting or of a server-side error
Overloaded(status) == status = 429 \/ status >= 500

\* the puts the store has applied so far, for all runs
RECURSIVE PutsOf(_)
PutsOf(runs) ==
    IF runs = {} THEN 0
    ELSE LET r == CHOOSE o \in runs : TRUE
         IN  Len(hist[r].puts) + PutsOf(runs \ {r})

PutsApplied == PutsOf(Runs)

Set(r, fields) == run' = [run EXCEPT ![r] = fields]
Note(r, fields) == hist' = [hist EXCEPT ![r] = fields]

\* what the history keeps of an attempt that threw `error`
Failed(h, error) ==
    [h EXCEPT
       !.failures = @ + 1,
       !.lastFailure = Some(error),
       !.unknownTier = @ \/ error.message.text = UnknownModelError("").message.text,
       !.escalatedAt = IF /\ @ = 0
                          /\ h.attempts[Len(h.attempts)].tier = "PRIMARY"
                          /\ error.statusCode = Some(429)
                       THEN Len(h.attempts) ELSE @,
       !.errAtLast = IF h.failures + 1 = MAX_ATTEMPTS THEN Some(error) ELSE @,
       !.errFinal = IF h.failures + 1 = MAX_ATTEMPTS + 1 THEN Some(error) ELSE @]

----------------------------------------------------------------------------
(* The three-tier revision: executeResilientUpdate and what it calls *)

\* mutant of LoopNext: every iteration fetches the prompt again
LoopNext_Refetch(rec) ==
    IF LoopContinues(rec.attempt + 1)
    THEN [rec EXCEPT !.attempt = rec.attempt + 1, !.pc = "fetchRemotePrompt",
                     !.modelKey = rec.currentModelKey]
    ELSE [rec EXCEPT !.attempt = rec.attempt + 1, !.pc = "generate",
                     !.stage = "final", !.modelKey = "FINAL"]

\* the for statement of Stage 1: the next iteration, or Stage 2 after the loop
LoopNext(rec) ==
    IF LoopContinues(rec.attempt + 1)
    THEN [rec EXCEPT !.attempt = rec.attempt + 1, !.pc = "generate",
                     !.modelKey = rec.currentModelKey]
    ELSE [rec EXCEPT !.attempt = rec.attempt + 1, !.pc = "generate",
                     !.stage = "final", !.modelKey = "FINAL"]

\* mutant of Stage1Catch: lastError keeps the first error of the loop
Stage1Catch_KeepsFirst(rec, error) ==
    LET caught == [rec EXCEPT !.lastError = IF @ = None THEN Some(error) ELSE @,
                              !.currentModelKey = EscalatedKey(rec.currentModelKey, error),
                              !.generatedContent = None]
    IN  IF WaitsBeforeRetry(rec.attempt)
        THEN [caught EXCEPT !.pc = "delay"]
        ELSE LoopNext(caught)

\* the catch block of the Stage-1 loop
Stage1Catch(rec, error) ==
    LET caught == [rec EXCEPT !.lastError = Some(error),
                              !.currentModelKey = EscalatedKey(rec.currentModelKey, error),
                              !.generatedContent = None]
    IN  IF WaitsBeforeRetry(rec.attempt)
        THEN [caught EXCEPT !.pc = "delay"]
        ELSE LoopNext(caught)

\* mutant of FinalCatch: the error of the FINAL attempt is logged, not thrown
FinalCatch_Swallows(rec, finalError) ==
    [rec EXCEPT !.pc = "returned", !.generatedContent = None]

\* the catch block of Stage 2
FinalCatch(rec, finalError) ==
    [rec EXCEPT !.pc = "threw", !.generatedContent = None,
                !.thrown = Some(ExhaustedAllStrategies(rec.lastError, finalError))]

\* mutant of SuccessResult: Stage 2 reports the tier of the retry loop
SuccessResult_LoopTier(rec) ==
    [model |-> rec.currentModelKey, content |-> rec.generatedContent[1]]

\* the value executeResilientUpdate returns after a successful attempt
SuccessResult(rec) ==
    [model |-> IF rec.stage = "final" THEN "FINAL" ELSE rec.currentModelKey,
     content |-> rec.generatedContent[1]]

\* an attempt of run r throws `error`; h is the run's history up to the throw
Fail(r, error, h) ==
    /\ Set(r, IF run[r].stage = "retry" THEN Stage1Catch(run[r], error)
              ELSE FinalCatch(run[r], error))
    /\ Note(r, Failed(h, error))

\* scheduled / handleManualUpdate call executeResilientUpdate(env)
executeResilientUpdate(r) ==
    /\ impl = "three"
    /\ run[r].pc = "idle"
    /\ Set(r, [IdleRun EXCEPT !.pc = "fetchRemotePrompt"])
    /\ Note(r, [NoHistory EXCEPT !.cacheAtStart = cache])
    /\ UNCHANGED <<impl, env, cache>>

\* fetchRemotePrompt up to its await: the token check and the request
fetchRemotePrompt(r) ==
    /\ impl = "three"
    /\ run[r].pc = "fetchRemotePrompt"
    /\ IF ~env.UPDATE_TOKEN
       THEN /\ Set(r, [run[r] EXCEPT !.pc = "threw",
                   !.thrown = Some(CriticalDependencyFailure(MissingTokenError))])
            /\ Note(r, [hist[r] EXCEPT !.promptCalls = @ + 1])
       ELSE /\ Set(r, [run[r] EXCEPT !.pc = "awaitPrompt"])
            /\ Note(r, [hist[r] EXCEPT !.promptCalls = @ + 1,
                                       !.promptRequests = @ + 1])
    /\ UNCHANGED <<impl, env, cache, http, sched>>

\* the prompt source answers
fetchRemotePrompt_Response(r) ==
    /\ impl = "three"
    /\ run[r].pc = "awaitPrompt"
    /\ \E resp \in PromptResponses :
        /\ Note(r, [hist[r] EXCEPT !.promptResponses = @ \cup {resp}])
        /\ IF ~ResponseOk(resp.status)
           THEN Set(r, [run[r] EXCEPT !.pc = "threw",
                    !.thrown = Some(CriticalDependencyFailure(PromptFetchError(resp.status)))])
           ELSE Set(r, [run[r] EXCEPT !.dynamicPrompt = Some(resp.text),
                                      !.attempt = 1, !.stage = "retry",
                                      !.modelKey = run[r].currentModelKey,
                                      !.pc = "generate"])
    /\ UNCHANGED <<impl, env, cache, http, sched>>

\* mutant of generateAndCacheContent: the call is not awaited, the loop goes
\* on to its next iteration at once
generateAndCacheContent_NotAwaited(r) ==
    /\ impl = "three"
    /\ run[r].pc = "generate"
    /\ run[r].stage = "retry"
    /\ Set(r, LoopNext(run[r]))
    /\ Note(r, [hist[r] EXCEPT
                   !.attempts = Append(@, [tier |-> run[r].modelKey]),
                   !.userDynamics = @ \cup {run[r].dynamicPrompt},
                   !.llmRequests = @ + 1])
    /\ UNCHANGED <<impl, env, cache, http, sched>>

\* mutant of generateAndCacheContent: the request is sent before the API key
\* is looked at
generateAndCacheContent_KeyUnchecked(r) ==
    /\ impl = "three"
    /\ run[r].pc = "generate"
    /\ Set(r, [run[r] EXCEPT !.pc = "awaitLLM"])
    /\ Note(r, [hist[r] EXCEPT
                   !.attempts = Append(@, [tier |-> run[r].modelKey]),
                   !.userDynamics = @ \cup {run[r].dynamicPrompt},
                   !.llmRequests = @ + 1])
    /\ UNCHANGED <<impl, env, cache, http, sched>>

\* generateAndCacheContent up to the await of the LLM request
generateAndCacheContent(r) ==
    /\ impl = "three"
    /\ run[r].pc = "generate"
    /\ LET key == run[r].modelKey
           apiKeyEnv == MODEL_REGISTRY[key].apiKeyEnv
           attempted == [hist[r] EXCEPT
                            !.attempts = Append(@, [tier |-> key]),
                            !.userDynamics = @ \cup {run[r].dynamicPrompt}]
           called == [attempted EXCEPT
                         !.llmRequests = IF env[apiKeyEnv] THEN @ + 1 ELSE @]
       IN  IF key \notin DOMAIN MODEL_REGISTRY
           THEN Fail(r, UnknownModelError(key), attempted)
           ELSE IF ~env[apiKeyEnv]
           THEN Fail(r, ApiKeyError(apiKeyEnv), called)
           ELSE /\ Set(r, [run[r] EXCEPT !.pc = "awaitLLM"])
                /\ Note(r, called)
    /\ UNCHANGED <<impl, env, cache, http, sched>>

\* the LLM endpoint answers
callOpenAIStyleAPI_Response(r) ==
    /\ impl = "three"
    /\ run[r].pc = "awaitLLM"
    /\ \E resp \in LLMResponses :
        IF callOpenAIStyleAPI_Error(resp) # None
        THEN Fail(r, callOpenAIStyleAPI_Error(resp)[1], hist[r])
        ELSE /\ Set(r, [run[r] EXCEPT !.pc = "awaitPut",
                    !.generatedContent = Some(callOpenAIStyleAPI_Result(resp))])
             /\ UNCHANGED hist
    /\ UNCHANGED <<impl, env, cache, http, sched>>

\* mutant of TEXT_CACHE_put_Apply: the store appends the text to the one it
\* holds
TEXT_CACHE_put_Appends(r) ==
    /\ impl = "three"
    /\ run[r].pc = "awaitPut"
    /\ cache' = IF cache = None THEN run[r].generatedContent
                ELSE Some(cache[1] \o run[r].generatedContent[1])
    /\ Set(r, [run[r] EXCEPT !.pc = "awaitPutAck"])
    /\ Note(r, [hist[r] EXCEPT !.puts = Append(@, run[r].generatedContent[1]),
                               !.putSeq = Append(@, PutsApplied + 1)])
    /\ UNCHANGED <<impl, env, http, sched>>

\* the store applies env.TEXT_CACHE.put(STORAGE_KEY, generatedContent)
TEXT_CACHE_put_Apply(r) ==
    /\ impl = "three"
    /\ run[r].pc = "awaitPut"
    /\ cache' = run[r].generatedContent
    /\ Set(r, [run[r] EXCEPT !.pc = "awaitPutAck"])
    /\ Note(r, [hist[r] EXCEPT !.puts = Append(@, run[r].generatedContent[1]),
                               !.putSeq = Append(@, PutsApplied + 1)])
    /\ UNCHANGED <<impl, env, http, sched>>

\* mutant of TEXT_CACHE_put_Reject: the rejection is swallowed and the run
\* returns the generated text
TEXT_CACHE_put_Reject_Ignored(r) ==
    /\ impl = "three"
    /\ run[r].pc = "awaitPut"
    /\ Set(r, [run[r] EXCEPT !.pc = "returned", !.result = Some(SuccessResult(run[r]))])
    /\ Note(r, [hist[r] EXCEPT !.succeededAt = Len(hist[r].attempts)])
    /\ UNCHANGED <<impl, env, cache, http, sched>>

\* the store rejects the put: the await throws and nothing was written
TEXT_CACHE_put_Reject(r) ==
    /\ impl = "three"
    /\ run[r].pc = "awaitPut"
    /\ Fail(r, PutError, hist[r])
    /\ UNCHANGED <<impl, env, cache, http, sched>>

\* mutant of generateAndCacheContent_Return: the loop has no return statement
generateAndCacheContent_NoReturn(r) ==
    /\ impl = "three"
    /\ run[r].pc = "awaitPutAck"
    /\ Set(r, IF run[r].stage = "retry" THEN LoopNext(run[r])
              ELSE [run[r] EXCEPT !.pc = "returned", !.result = Some(SuccessResult(run[r]))])
    /\ Note(r, [hist[r] EXCEPT !.succeededAt = Len(hist[r].attempts)])
    /\ UNCHANGED <<impl, env, cache, http, sched>>

\* mutant of generateAndCacheContent_Return: an empty text is refused, but
\* only after it was cached
generateAndCacheContent_LateCheck(r) ==
    /\ impl = "three"
    /\ run[r].pc = "awaitPutAck"
    /\ IF run[r].generatedContent[1] = << >>
       THEN Fail(r, Error(Message("empty content", None, "", << >>), None), hist[r])
       ELSE /\ Set(r, [run[r] EXCEPT !.pc = "returned",
                                     !.result = Some(SuccessResult(run[r]))])
            /\ Note(r, [hist[r] EXCEPT !.succeededAt = Len(hist[r].attempts)])
    /\ UNCHANGED <<impl, env, cache, http, sched>>

\* the put resolves; generateAndCacheContent and executeResilientUpdate return
generateAndCacheContent_Return(r) ==
    /\ impl = "three"
    /\ run[r].pc = "awaitPutAck"
    /\ Set(r, [run[r] EXCEPT !.pc = "returned", !.result = Some(SuccessResult(run[r]))])
    /\ Note(r, [hist[r] EXCEPT !.succeededAt = Len(hist[r].attempts)])
    /\ UNCHANGED <<impl, env, cache, http, sched>>

\* the timer of the catch block fires
RetryDelay_Elapsed(r) ==
    /\ impl = "three"
    /\ run[r].pc = "delay"
    /\ Set(r, LoopNext(run[r]))
    /\ Note(r, [hist[r] EXCEPT !.delays = @ + 1])
    /\ UNCHANGED <<impl, env, cache, http, sched>>

----------------------------------------------------------------------------
(* index.js: run_update_with_retries, update_kv_text and what they call.   *)
(* currentModelKey is model_for_this_attempt: "PRIMARY" is PRIMARY_MODEL,  *)
(* "FALLBACK" is FALLBACK_MODEL; statusCode is the status_code property.   *)

\* the errors of index.js
IndexMissingTokenError ==
    Error(Message("UPDATE_TOKEN is not set, cannot fetch the prompt", None, "", << >>), None)

IndexPromptFetchError(status) ==
    Error(Message("cannot fetch the prompt from the external URL", Some(status), "", << >>),
          Some(status))

\* MODEL_CONFIG: PRIMARY stands for the key 'gemini-pro-latest' (PRIMARY_MODEL),
\* FALLBACK for 'gemini-flash-latest' (FALLBACK_MODEL)
MODEL_CONFIG ==
    [PRIMARY  |-> [thinking_budget |-> 32768],
     FALLBACK |-> [thinking_budget |-> 24576]]

IndexApiKeyError == Error(Message("GEMINI_API_KEY is not set", None, "", << >>), None)

AllRetriesFailed ==
    Error(Message("All retry attempts failed. The content was not updated.",
                  None, "", << >>), None)

\* the error generate_text_with_llm throws for a response, None when it returns
generate_text_with_llm_Error(resp) ==
    IF ~ResponseOk(resp.status)
    THEN Some(Error(Message("LLM API request failed", Some(resp.status), "", << >>),
                    Some(resp.status)))
    ELSE IF Falsy(resp.text)
    THEN Some(Error(Message(IF resp.finishReason = Some("SAFETY")
                            THEN "LLM API response blocked for safety reasons"
                            ELSE "LLM API returned no valid text",
                            None, "", << >>), None))
    ELSE None

\* what generate_text_with_llm returns for a response it accepts
generate_text_with_llm_Result(resp) == Trim(resp.text[1])

\* the fallback rule of the catch block of run_update_with_retries
IndexEscalatedKey(attempt, model, error) ==
    IF attempt < RETRY_ATTEMPTS /\ model = "PRIMARY" /\ error.statusCode = Some(429)
    THEN "FALLBACK"
    ELSE model

\* the catch block and the for statement of run_update_with_retries
IndexCatch(rec, error) ==
    LET caught == [rec EXCEPT
                      !.currentModelKey = IndexEscalatedKey(rec.attempt, @, error),
                      !.modelKey = IndexEscalatedKey(rec.attempt, rec.currentModelKey, error),
                      !.attempt = @ + 1,
                      !.dynamicPrompt = None,
                      !.generatedContent = None]
    IN  IF rec.attempt + 1 <= RETRY_ATTEMPTS
        THEN [caught EXCEPT !.pc = "update_kv_text"]
        ELSE [caught EXCEPT !.pc = "threw", !.thrown = Some(AllRetriesFailed)]

\* the value run_update_with_retries returns: {model_used, new_content}
IndexSuccessResult(rec) ==
    [model |-> rec.currentModelKey, content |-> rec.generatedContent[1]]

\* what the history keeps of an attempt that threw `error`, n the attempt limit
FailedOf(h, error, n) ==
    [h EXCEPT
       !.failures = @ + 1,
       !.unknownTier = @ \/ error.message.text = UnknownModelError("").message.text,
       !.escalatedAt = IF /\ @ = 0
                          /\ h.attempts[Len(h.attempts)].tier = "PRIMARY"
                          /\ error.statusCode = Some(429)
                       THEN Len(h.attempts) ELSE @,
       !.errAtLast = IF h.failures + 1 = n THEN Some(error) ELSE @]

IndexFail(r, error, h) ==
    /\ Set(r, IndexCatch(run[r], error))
    /\ Note(r, FailedOf(h, error, RETRY_ATTEMPTS))

\* scheduled / handle_force_update call run_update_with_retries(env)
run_update_with_retries(r) ==
    /\ impl = "index"
    /\ run[r].pc = "idle"
    /\ Set(r, [IdleRun EXCEPT !.pc = "update_kv_text", !.attempt = 1, !.stage = "retry"])
    /\ Note(r, [NoHistory EXCEPT !.cacheAtStart = cache])
    /\ UNCHANGED <<impl, env, cache>>

\* update_kv_text calls get_external_prompt: the token check and the request
update_kv_text(r) ==
    /\ impl = "index"
    /\ run[r].pc = "update_kv_text"
    /\ LET called == [hist[r] EXCEPT
                         !.attempts = Append(@, [tier |-> run[r].currentModelKey]),
                         !.promptCalls = @ + 1,
                         !.promptRequests = IF env.UPDATE_TOKEN THEN @ + 1 ELSE @,
                         !.promptFailures = IF env.UPDATE_TOKEN THEN @ ELSE @ + 1]
       IN  IF ~env.UPDATE_TOKEN
           THEN IndexFail(r, IndexMissingTokenError, called)
           ELSE /\ Set(r, [run[r] EXCEPT !.pc = "awaitPrompt"])
                /\ Note(r, called)
    /\ UNCHANGED <<impl, env, cache, http, sched>>

\* the prompt source answers get_external_prompt
get_external_prompt_Response(r) ==
    /\ impl = "index"
    /\ run[r].pc = "awaitPrompt"
    /\ \E resp \in PromptResponses :
        IF ~ResponseOk(resp.status)
        THEN IndexFail(r, IndexPromptFetchError(resp.status),
                       [hist[r] EXCEPT !.promptFailures = @ + 1])
        ELSE /\ Set(r, [run[r] EXCEPT !.dynamicPrompt = Some(resp.text),
                                      !.pc = "generate"])
             /\ UNCHANGED hist
    /\ UNCHANGED <<impl, env, cache, http, sched>>

\* generate_text_with_llm up to the await of the request
generate_text_with_llm(r) ==
    /\ impl = "index"
    /\ run[r].pc = "generate"
    /\ IF ~env.GEMINI_API_KEY
       THEN IndexFail(r, IndexApiKeyError, hist[r])
       ELSE IF run[r].modelKey \notin DOMAIN MODEL_CONFIG
       THEN IndexFail(r, UnknownModelError(run[r].modelKey), hist[r])
       ELSE /\ Set(r, [run[r] EXCEPT !.pc = "awaitLLM"])
            /\ Note(r, [hist[r] EXCEPT !.llmRequests = @ + 1])
    /\ UNCHANGED <<impl, env, cache, http, sched>>

\* the Gemini endpoint answers
generate_text_with_llm_Response(r) ==
    /\ impl = "index"
    /\ run[r].pc = "awaitLLM"
    /\ \E resp \in GeminiResponses :
        IF generate_text_with_llm_Error(resp) # None
        THEN IndexFail(r, generate_text_with_llm_Error(resp)[1],
                       [hist[r] EXCEPT !.llmOverloaded = @ \/ Overloaded(resp.status)])
        ELSE /\ Set(r, [run[r] EXCEPT !.pc = "awaitPut",
                    !.generatedContent = Some(generate_text_with_llm_Result(resp))])
             /\ UNCHANGED hist
    /\ UNCHANGED <<impl, env, cache, http, sched>>

\* the store applies env.TEXT_CACHE.put(KV_KEY, new_text)
update_kv_text_put_Apply(r) ==
    /\ impl = "index"
    /\ run[r].pc = "awaitPut"
    /\ cache' = run[r].generatedContent
    /\ Set(r, [run[r] EXCEPT !.pc = "awaitPutAck"])
    /\ Note(r, [hist[r] EXCEPT !.puts = Append(@, run[r].generatedContent[1]),
                               !.putSeq = Append(@, PutsApplied + 1)])
    /\ UNCHANGED <<impl, env, http, sched>>

\* the store rejects the put: the await throws and nothing was written
update_kv_text_put_Reject(r) ==
    /\ impl = "index"
    /\ run[r].pc = "awaitPut"
    /\ IndexFail(r, PutError, hist[r])
    /\ UNCHANGED <<impl, env, cache, http, sched>>

\* the put resolves; update_kv_text and run_update_with_retries return
update_kv_text_Return(r) ==
    /\ impl = "index"
    /\ run[r].pc = "awaitPutAck"
    /\ Set(r, [run[r] EXCEPT !.pc = "returned", !.result = Some(IndexSuccessResult(run[r]))])
    /\ Note(r, [hist[r] EXCEPT !.succeededAt = Len(hist[r].attempts)])
    /\ UNCHANGED <<impl, env, cache, http, sched>>

----------------------------------------------------------------------------
(* The two-tier revision: executeResilientUpdate and what it calls *)

\* the escalation rule of the two-tier catch block
EscalatedKey2(currentModelKey, error) ==
    IF /\ currentModelKey = "PRIMARY"
       /\ error.statusCode # None
       /\ (error.statusCode[1] = 429 \/ error.statusCode[1] >= 500)
    THEN "FALLBACK"
    ELSE currentModelKey

\* the error the two-tier executeResilientUpdate throws
FailedAfterAttempts(error) ==
    Error(Message("Failed to update content after MAX_ATTEMPTS attempts. Last error:",
                  None, "", <<error.message>>), None)

\* the for statement: the next iteration; after the loop the function ends
\* without a return statement
LoopNext2(rec) ==
    IF rec.attempt + 1 <= MAX_ATTEMPTS2
    THEN [rec EXCEPT !.attempt = rec.attempt + 1, !.pc = "generate",
                     !.modelKey = rec.currentModelKey]
    ELSE [rec EXCEPT !.attempt = rec.attempt + 1, !.pc = "returned"]

\* the catch block of the two-tier loop
Catch2(rec, error) ==
    LET caught == [rec EXCEPT !.dynamicPrompt = None, !.generatedContent = None]
    IN  IF rec.attempt = MAX_ATTEMPTS2
        THEN [caught EXCEPT !.pc = "threw", !.thrown = Some(FailedAfterAttempts(error))]
        ELSE LET switched == [caught EXCEPT
                                 !.currentModelKey = EscalatedKey2(rec.currentModelKey, error)]
             IN  IF DELAY_SECONDS2 > 0
                 THEN [switched EXCEPT !.pc = "delay"]
                 ELSE LoopNext2(switched)

Fail2(r, error, h) ==
    /\ Set(r, Catch2(run[r], error))
    /\ Note(r, FailedOf(h, error, MAX_ATTEMPTS2))

\* scheduled / handleManualUpdate call executeResilientUpdate(env)
executeResilientUpdate2(r) ==
    /\ impl = "two"
    /\ run[r].pc = "idle"
    /\ Set(r, [IdleRun EXCEPT !.pc = "generate", !.attempt = 1, !.stage = "retry"])
    /\ Note(r, [NoHistory EXCEPT !.cacheAtStart = cache])
    /\ UNCHANGED <<impl, env, cache>>

\* generateAndCacheContent calls fetchRemotePrompt: the token check and the request
generateAndCacheContent2(r) ==
    /\ impl = "two"
    /\ run[r].pc = "generate"
    /\ LET called == [hist[r] EXCEPT
                         !.attempts = Append(@, [tier |-> run[r].currentModelKey]),
                         !.promptCalls = @ + 1,
                         !.promptRequests = IF env.UPDATE_TOKEN THEN @ + 1 ELSE @,
                         !.promptFailures = IF env.UPDATE_TOKEN THEN @ ELSE @ + 1]
       IN  IF ~env.UPDATE_TOKEN
           THEN Fail2(r, MissingTokenError, called)
           ELSE /\ Set(r, [run[r] EXCEPT !.pc = "awaitPrompt"])
                /\ Note(r, called)
    /\ UNCHANGED <<impl, env, cache, http, sched>>

\* the prompt source answers; callOpenAIStyleAPI runs up to its await
fetchRemotePrompt2_Response(r) ==
    /\ impl = "two"
    /\ run[r].pc = "awaitPrompt"
    /\ \E resp \in PromptResponses :
        IF ~ResponseOk(resp.status)
        THEN Fail2(r, PromptFetchError(resp.status),
                   [hist[r] EXCEPT !.promptFailures = @ + 1])
        ELSE LET apiKeyEnv == MODEL_REGISTRY[run[r].currentModelKey].apiKeyEnv
             IN  IF ~env[apiKeyEnv]
                 THEN Fail2(r, ApiKeyError(apiKeyEnv), hist[r])
                 ELSE /\ Set(r, [run[r] EXCEPT !.dynamicPrompt = Some(resp.text),
                                               !.pc = "awaitLLM"])
                      /\ Note(r, [hist[r] EXCEPT !.llmRequests = @ + 1])
    /\ UNCHANGED <<impl, env, cache, http, sched>>

\* the LLM endpoint answers
callOpenAIStyleAPI2_Response(r) ==
    /\ impl = "two"
    /\ run[r].pc = "awaitLLM"
    /\ \E resp \in LLMResponses :
        IF callOpenAIStyleAPI_Error(resp) # None
        THEN Fail2(r, callOpenAIStyleAPI_Error(resp)[1],
                   [hist[r] EXCEPT !.llmOverloaded = @ \/ Overloaded(resp.status)])
        ELSE /\ Set(r, [run[r] EXCEPT !.pc = "awaitPut",
                    !.generatedContent = Some(callOpenAIStyleAPI_Result(resp))])
             /\ UNCHANGED hist
    /\ UNCHANGED <<impl, env, cache, http, sched>>

\* the store applies env.TEXT_CACHE.put(STORAGE_KEY, generatedContent)
TEXT_CACHE_put2_Apply(r) ==
    /\ impl = "two"
    /\ run[r].pc = "awaitPut"
    /\ cache' = run[r].generatedContent
    /\ Set(r, [run[r] EXCEPT !.pc = "awaitPutAck"])
    /\ Note(r, [hist[r] EXCEPT !.puts = Append(@, run[r].generatedContent[1]),
                               !.putSeq = Append(@, PutsApplied + 1)])
    /\ UNCHANGED <<impl, env, http, sched>>

\* the store rejects the put: the await throws and nothing was written
TEXT_CACHE_put2_Reject(r) ==
    /\ impl = "two"
    /\ run[r].pc = "awaitPut"
    /\ Fail2(r, PutError, hist[r])
    /\ UNCHANGED <<impl, env, cache, http, sched>>

\* the put resolves; generateAndCacheContent and executeResilientUpdate return
generateAndCacheContent2_Return(r) ==
    /\ impl = "two"
    /\ run[r].pc = "awaitPutAck"
    /\ Set(r, [run[r] EXCEPT !.pc = "returned",
           !.result = Some([model |-> run[r].currentModelKey,
                            content |-> run[r].generatedContent[1]])])
    /\ Note(r, [hist[r] EXCEPT !.succeededAt = Len(hist[r].attempts)])
    /\ UNCHANGED <<impl, env, cache, http, sched>>

\* the timer of the catch block fires
RetryDelay2_Elapsed(r) ==
    /\ impl = "two"
    /\ run[r].pc = "delay"
    /\ Set(r, LoopNext2(run[r]))
    /\ Note(r, [hist[r] EXCEPT !.delays = @ + 1])
    /\ UNCHANGED <<impl, env, cache, http, sched>>

----------------------------------------------------------------------------
(* The HTTP entry point: fetch and the route handlers of the three-tier     *)
(* revision (handleGetContent, handleManualUpdate) and of index.js          *)
(* (handle_get_text, handle_force_update).  A header value is the sequence  *)
(* of its characters.                                                       *)

Bearer == <<"B", "e", "a", "r", "e", "r", " ">>

\* the value of the secret UPDATE_TOKEN where it is set
SecretText == <<"s">>

\* env.UPDATE_TOKEN as the handlers read it
ServerToken(e) == IF e.UPDATE_TOKEN THEN Some(SecretText) ELSE None

\* the Authorization headers requests come with; None: no such header
AuthorizationHeaders ==
    { None,
      Some(<< >>),
      Some(<<"s">>),
      Some(<<"B", "e", "a", "r", "e", "r">>),
      Some(Bearer),
      Some(Bearer \o <<"s">>),
      Some(Bearer \o <<"x">>),
      Some(Bearer \o <<"s", "x">>),
      Some(Bearer \o <<"s", " ", "x">>),
      Some(Bearer \o <<" ", "s">>),
      Some(<<"b", "e", "a", "r", "e", "r", " ", "s">>),
      Some(<<"B", "a", "s", "i", "c", " ", "s">>),
      Some(<<" ">> \o Bearer \o <<"s">>) }

Methods == {"GET", "POST", "OPTIONS"}

Paths == {"/", "/update", "/other"}

Requests == [method : Methods, pathname : Paths, authorization : AuthorizationHeaders]

\* String.prototype.startsWith
StartsWith(str, prefix) ==
    /\ Len(str) >= Len(prefix)
    /\ SubSeq(str, 1, Len(prefix)) = prefix

\* String.prototype.split(separator), for a separator of one character: the
\* pieces between the separators, at least one piece
RECURSIVE Split(_, _)
Split(str, separator) ==
    IF \A i \in 1..Len(str) : str[i] # separator
    THEN <<str>>
    ELSE LET first == CHOOSE i \in 1..Len(str) :
                          /\ str[i] = separator
                          /\ \A j \in 1..(i - 1) : str[j] # separator
         IN  <<SubSeq(str, 1, first - 1)>> \o Split(SubSeq(str, first + 1, Len(str)), separator)

\* pieces[1] of JavaScript (the second piece), None where it is undefined
SecondPiece(pieces) == IF Len(pieces) >= 2 THEN Some(pieces[2]) ELSE None

\* CORS_HEADERS (part_000 lines 596-600, index.js lines 27-31)
CORS_HEADERS ==
    ("Access-Control-Allow-Origin" :> "*")
    @@ ("Access-Control-Allow-Methods" :> "GET, POST, OPTIONS")
    @@ ("Access-Control-Allow-Headers" :> "Authorization, Content-Type")

\* the object literal { ...own, ...spread }: a key of `spread` replaces the
\* same key of `own`
ObjectSpread(own, spread) == spread @@ own

\* new Response(body, { status, headers: CORS_HEADERS })
Response(status, body) == [status |-> status, body |-> body, headers |-> CORS_HEADERS]

\* new Response(body, { status, headers: { 'Content-Type': 'text/plain;
\* charset=utf-8', ...CORS_HEADERS } })
TextResponse(status, body) ==
    [status |-> status, body |-> body,
     headers |-> ObjectSpread("Content-Type" :> "text/plain; charset=utf-8", CORS_HEADERS)]

\* new Response(JSON.stringify(...) + '\n', { status, headers: { 'Content-Type':
\* 'application/json', ...CORS_HEADERS } })
JsonResponse(status, body) ==
    [status |-> status, body |-> body,
     headers |-> ObjectSpread("Content-Type" :> "application/json", CORS_HEADERS)]

\* mutant of handleManualUpdate_Rejection: the header is checked before the
\* server secret
handleManualUpdate_Rejection_HeaderFirst(request, e) ==
    IF request.method # "POST" THEN Some(405)
    ELSE IF \/ Falsy(request.authorization)
            \/ ~StartsWith(request.authorization[1], Bearer) THEN Some(401)
    ELSE IF ServerToken(e) = None THEN Some(500)
    ELSE IF SecondPiece(Split(request.authorization[1], " ")) # ServerToken(e) THEN Some(403)
    ELSE None

\* mutant of handleManualUpdate_Rejection: the token is not compared
handleManualUpdate_Rejection_NoCompare(request, e) ==
    IF request.method # "POST" THEN Some(405)
    ELSE IF ServerToken(e) = None THEN Some(500)
    ELSE IF \/ Falsy(request.authorization)
            \/ ~StartsWith(request.authorization[1], Bearer) THEN Some(401)
    ELSE None

\* the status handleManualUpdate refuses a request with, None when it goes
\* on to executeResilientUpdate
handleManualUpdate_Rejection(request, e) ==
    IF request.method # "POST" THEN Some(405)
    ELSE IF ServerToken(e) = None THEN Some(500)
    ELSE IF \/ Falsy(request.authorization)
            \/ ~StartsWith(request.authorization[1], Bearer) THEN Some(401)
    ELSE IF SecondPiece(Split(request.authorization[1], " ")) # ServerToken(e) THEN Some(403)
    ELSE None

\* the same for handle_force_update of index.js
handle_force_update_Rejection(request, e) ==
    IF request.method # "POST" THEN Some(405)
    ELSE IF ServerToken(e) = None THEN Some(500)
    ELSE IF \/ Falsy(request.authorization)
            \/ ~StartsWith(request.authorization[1], Bearer) THEN Some(401)
    ELSE IF SecondPiece(Split(request.authorization[1], " ")) # ServerToken(e) THEN Some(403)
    ELSE None

Rejection(request) ==
    IF impl = "index" THEN handle_force_update_Rejection(request, env)
    ELSE handleManualUpdate_Rejection(request, env)

RejectionBody(status) ==
    CASE status = 405 -> <<"Method Not Allowed. Use POST.\n">>
      [] status = 500 -> <<"Server configuration error.\n">>
      [] status = 401 -> <<"Unauthorized: Missing or invalid Bearer token.\n">>
      [] status = 403 -> <<"Forbidden: Invalid token.\n">>

\* mutant of handleGetContent_Response: the text is served as it is
handleGetContent_Response_NoNewline(content) ==
    IF Falsy(content)
    THEN TextResponse(503, <<"Service warming up, content is generating...\n">>)
    ELSE TextResponse(200, content[1])

\* what handleGetContent answers when the read gave `content`
handleGetContent_Response(content) ==
    IF Falsy(content)
    THEN TextResponse(503, <<"Service warming up, content is generating...\n">>)
    ELSE TextResponse(200, content[1] \o <<"\n">>)

\* what handle_get_text of index.js answers when the read gave `cached_text`
handle_get_text_Response(cached_text) ==
    IF ~Falsy(cached_text)
    THEN TextResponse(200, cached_text[1] \o <<"\n">>)
    ELSE TextResponse(503, <<"content is being generated, retry later\n">>)

\* the error of a read the store rejects
GetError == Error(Message("KV get failed", None, "", << >>), None)

\* mutant of ReadFailureResponse: the response of the catch block has no
\* headers of its own
ReadFailureResponse_Bare ==
    [status |-> 500, body |-> <<"Internal Server Error: ", GetError.message.text, "\n">>,
     headers |-> "Content-Type" :> "text/plain;charset=UTF-8"]

\* what the request gets when the read throws: handleGetContent rethrows and
\* the catch of fetch answers; handle_get_text answers in its own catch
ReadFailureResponse ==
    IF impl = "index"
    THEN TextResponse(500, <<"server internal error: ", GetError.message.text, "\n">>)
    ELSE Response(500, <<"Internal Server Error: ", "Cache retrieval failed: ",
                         GetError.message.text, "\n">>)

\* mutant of UpdateResponse: the handler answers 200 whatever the outcome
UpdateResponse_AlwaysOk(rec) ==
    JsonResponse(200, <<"success: true", "model_used: ", rec.currentModelKey,
                    "new_content: ", "\n">>)

\* what the update handler answers once the orchestrator has ended
UpdateResponse(rec) ==
    IF rec.pc = "returned"
    THEN JsonResponse(200, <<"success: true", "model_used: ", rec.result[1].model,
                         "new_content: ">> \o rec.result[1].content \o <<"\n">>)
    ELSE JsonResponse(500, <<"success: false", "message: ", rec.thrown[1].message.text, "\n">>)

Answered(request, response) ==
    [pc |-> "done", request |-> Some(request), response |-> Some(response),
     cacheBefore |-> cache, gets |-> 0, readOutcome |-> "none"]

\* the first request arrives: no run has been started.  The handlers keep
\* nothing from one request to the next but the cache.
Listening ==
    /\ http.pc = "idle"
    /\ \A o \in Runs : run[o].pc = "idle"

\* fetch: a preflight request
fetch_Options(request) ==
    /\ Listening
    /\ request.method = "OPTIONS"
    /\ http' = Answered(request, Response(204, << >>))
    /\ UNCHANGED <<impl, env, cache, run, hist, sched>>

\* mutant of fetch_NotFound: the path is looked at before the method
fetch_NotFound_AnyMethod(request) ==
    /\ Listening
    /\ request.pathname \notin {"/", "/update"}
    /\ http' = Answered(request, Response(404, <<"Not Found\n">>))
    /\ UNCHANGED <<impl, env, cache, run, hist, sched>>

\* fetch: the default case of the switch
fetch_NotFound(request) ==
    /\ Listening
    /\ request.method # "OPTIONS"
    /\ request.pathname \notin {"/", "/update"}
    /\ http' = Answered(request, Response(404, <<"Not Found\n">>))
    /\ UNCHANGED <<impl, env, cache, run, hist, sched>>

\* fetch, case '/update': the handler refuses the request
handleManualUpdate_Refuse(request) ==
    /\ Listening
    /\ request.method # "OPTIONS"
    /\ request.pathname = "/update"
    /\ Rejection(request) # None
    /\ http' = Answered(request, Response(Rejection(request)[1],
                                          RejectionBody(Rejection(request)[1])))
    /\ UNCHANGED <<impl, env, cache, run, hist, sched>>

\* fetch, case '/update': the handler calls the orchestrator and awaits it
handleManualUpdate(request) ==
    /\ Listening
    /\ request.method # "OPTIONS"
    /\ request.pathname = "/update"
    /\ Rejection(request) = None
    /\ IF impl = "index" THEN run_update_with_retries("manual")
       ELSE executeResilientUpdate("manual")
    /\ http' = [pc |-> "awaitUpdate", request |-> Some(request), response |-> None,
                cacheBefore |-> cache, gets |-> 0, readOutcome |-> "none"]
    /\ UNCHANGED sched

\* the orchestrator has returned or thrown: the handler answers
handleManualUpdate_Respond ==
    /\ http.pc = "awaitUpdate"
    /\ Terminal("manual")
    /\ http' = [http EXCEPT !.pc = "done", !.response = Some(UpdateResponse(run["manual"]))]
    /\ UNCHANGED <<impl, env, cache, run, hist, sched>>

\* an update has ended and no other is under way
AfterUpdate ==
    /\ \E o \in Runs : Terminal(o)
    /\ \A o \in Runs : run[o].pc = "idle" \/ Terminal(o)

\* fetch, case '/': the handler awaits env.TEXT_CACHE.get
handleGetContent(request) ==
    /\ http.pc \in {"idle", "done"}
    /\ request.method # "OPTIONS"
    /\ request.pathname = "/"
    /\ http' = [pc |-> "awaitGet", request |-> Some(request), response |-> None,
                cacheBefore |-> cache, gets |-> 1, readOutcome |-> "none"]
    /\ UNCHANGED <<impl, env, cache, run, hist, sched>>

\* mutant of TEXT_CACHE_get_Resolve: the read is answered only when no run
\* is under way
TEXT_CACHE_get_Resolve_AfterRun ==
    /\ http.pc = "awaitGet"
    /\ \A o \in Runs : run[o].pc = "idle" \/ Terminal(o)
    /\ http' = [http EXCEPT !.pc = "done", !.readOutcome = "resolved",
                   !.response = Some(IF impl = "index" THEN handle_get_text_Response(cache)
                                     ELSE handleGetContent_Response(cache))]
    /\ UNCHANGED <<impl, env, cache, run, hist, sched>>

\* the store answers the read with what it holds
TEXT_CACHE_get_Resolve ==
    /\ http.pc = "awaitGet"
    /\ http' = [http EXCEPT !.pc = "done", !.readOutcome = "resolved",
                   !.response = Some(IF impl = "index" THEN handle_get_text_Response(cache)
                                     ELSE handleGetContent_Response(cache))]
    /\ UNCHANGED <<impl, env, cache, run, hist, sched>>

\* the store rejects the read
TEXT_CACHE_get_Reject ==
    /\ http.pc = "awaitGet"
    /\ http' = [http EXCEPT !.pc = "done", !.readOutcome = "rejected",
                             !.response = Some(ReadFailureResponse)]
    /\ UNCHANGED <<impl, env, cache, run, hist, sched>>

\* scheduled: the handler calls the orchestrator, which runs up to its first
\* await, hands the chained promise to ctx.waitUntil and returns
scheduled ==
    /\ sched.pc = "idle"
    /\ IF impl = "index" THEN run_update_with_retries("cron")
       ELSE executeResilientUpdate("cron")
    /\ sched' = [pc |-> "returned", waitUntil |-> "pending", log |-> << >>]
    /\ UNCHANGED http

\* the run returned: the .then callback of the three-tier handler logs the
\* model (index.js chains no .then) and the promise is fulfilled
scheduled_then ==
    /\ sched.waitUntil = "pending"
    /\ run["cron"].pc = "returned"
    /\ sched' = [sched EXCEPT
                    !.waitUntil = "fulfilled",
                    !.log = IF impl = "index" THEN @
                            ELSE Append(@, <<"completed", run["cron"].result[1].model>>)]
    /\ UNCHANGED <<impl, env, cache, run, hist, http>>

\* mutant of scheduled_catch: no .catch is chained on the run's promise
scheduled_catch_Missing ==
    /\ sched.waitUntil = "pending"
    /\ run["cron"].pc = "threw"
    /\ sched' = [sched EXCEPT !.waitUntil = "rejected"]
    /\ UNCHANGED <<impl, env, cache, run, hist, http>>

\* the run threw: the .catch callback logs err.message and the promise is
\* fulfilled
scheduled_catch ==
    /\ sched.waitUntil = "pending"
    /\ run["cron"].pc = "threw"
    /\ sched' = [sched EXCEPT
                    !.waitUntil = "fulfilled",
                    !.log = Append(@, <<"failed", run["cron"].thrown[1].message.text>>)]
    /\ UNCHANGED <<impl, env, cache, run, hist, http>>

----------------------------------------------------------------------------
(* Specifications *)

\* scheduled, or a manual update whose request is not looked at, calls the
\* orchestrator, one run at a time
NoRunStarted == \A o \in Runs : run[o].pc = "idle"

executeResilientUpdate_Called(r) ==
    NoRunStarted /\ executeResilientUpdate(r) /\ UNCHANGED <<http, sched>>

run_update_with_retries_Called(r) ==
    NoRunStarted /\ run_update_with_retries(r) /\ UNCHANGED <<http, sched>>

executeResilientUpdate2_Called(r) ==
    NoRunStarted /\ executeResilientUpdate2(r) /\ UNCHANGED <<http, sched>>

\* the three-tier revision
Next ==
    \E r \in Runs :
        \/ executeResilientUpdate_Called(r)
        \/ fetchRemotePrompt(r)
        \/ fetchRemotePrompt_Response(r)
        \/ generateAndCacheContent(r)
        \/ callOpenAIStyleAPI_Response(r)
        \/ TEXT_CACHE_put_Apply(r)
        \/ TEXT_CACHE_put_Reject(r)
        \/ generateAndCacheContent_Return(r)
        \/ RetryDelay_Elapsed(r)

Spec == Init /\ [][Next]_vars

\* index.js
NextIndex ==
    \E r \in Runs :
        \/ run_update_with_retries_Called(r)
        \/ update_kv_text(r)
        \/ get_external_prompt_Response(r)
        \/ generate_text_with_llm(r)
        \/ generate_text_with_llm_Response(r)
        \/ update_kv_text_put_Apply(r)
        \/ update_kv_text_put_Reject(r)
        \/ update_kv_text_Return(r)

SpecIndex == InitOf({"index"}) /\ [][NextIndex]_vars

\* the two-tier revision
NextTwo ==
    \E r \in Runs :
        \/ executeResilientUpdate2_Called(r)
        \/ generateAndCacheContent2(r)
        \/ fetchRemotePrompt2_Response(r)
        \/ callOpenAIStyleAPI2_Response(r)
        \/ TEXT_CACHE_put2_Apply(r)
        \/ TEXT_CACHE_put2_Reject(r)
        \/ generateAndCacheContent2_Return(r)
        \/ RetryDelay2_Elapsed(r)

SpecTwo == InitOf({"two"}) /\ [][NextTwo]_vars

\* the two revisions of executeResilientUpdate, every external call and
\* every timer of a started run completing eventually
NextExecute == Next \/ NextTwo

Resume(r) ==
    \/ fetchRemotePrompt(r)
    \/ fetchRemotePrompt_Response(r)
    \/ generateAndCacheContent(r)
    \/ callOpenAIStyleAPI_Response(r)
    \/ TEXT_CACHE_put_Apply(r)
    \/ TEXT_CACHE_put_Reject(r)
    \/ generateAndCacheContent_Return(r)
    \/ RetryDelay_Elapsed(r)
    \/ generateAndCacheContent2(r)
    \/ fetchRemotePrompt2_Response(r)
    \/ callOpenAIStyleAPI2_Response(r)
    \/ TEXT_CACHE_put2_Apply(r)
    \/ TEXT_CACHE_put2_Reject(r)
    \/ generateAndCacheContent2_Return(r)
    \/ RetryDelay2_Elapsed(r)

SpecExecuteFair ==
    /\ InitOf({"three", "two"})
    /\ [][NextExecute]_vars
    /\ \A r \in Runs : WF_vars(Resume(r))

\* the schedule fires while a manual update runs, or the other way round:
\* two runs of the three-tier orchestrator overlap.  The worker has all its
\* secrets; the runs are followed as far as MaxOverlapFailures failed
\* attempts, counted over both.
executeResilientUpdate_Overlapping(r) == executeResilientUpdate(r) /\ UNCHANGED <<http, sched>>

RECURSIVE FailuresOf(_)
FailuresOf(runs) ==
    IF runs = {} THEN 0
    ELSE LET r == CHOOSE o \in runs : TRUE
         IN  hist[r].failures + FailuresOf(runs \ {r})

WithinOverlapBound == FailuresOf(Runs) <= MaxOverlapFailures

ConfiguredEnvironments ==
    {e \in Environments : e.UPDATE_TOKEN /\ e.GEMINI_API_KEY /\ e.GITHUB_API_KEY}

InitOverlap ==
    /\ impl = "three"
    /\ env \in ConfiguredEnvironments
    /\ cache \in InitialCaches
    /\ run = [r \in Runs |-> IdleRun]
    /\ hist = [r \in Runs |-> NoHistory]
    /\ http = NoRequest
    /\ sched = NotScheduled

NextOverlap ==
    \E r \in Runs :
        \/ executeResilientUpdate_Overlapping(r) /\ WithinOverlapBound'
        \/ fetchRemotePrompt(r) /\ WithinOverlapBound'
        \/ fetchRemotePrompt_Response(r) /\ WithinOverlapBound'
        \/ generateAndCacheContent(r) /\ WithinOverlapBound'
        \/ callOpenAIStyleAPI_Response(r) /\ WithinOverlapBound'
        \/ TEXT_CACHE_put_Apply(r) /\ WithinOverlapBound'
        \/ TEXT_CACHE_put_Reject(r) /\ WithinOverlapBound'
        \/ generateAndCacheContent_Return(r) /\ WithinOverlapBound'
        \/ RetryDelay_Elapsed(r) /\ WithinOverlapBound'

SpecOverlap == InitOverlap /\ [][NextOverlap]_vars

\* any of the three revisions is deployed
NextAny == Next \/ NextIndex \/ NextTwo

SpecAny == InitOf({"three", "two", "index"}) /\ [][NextAny]_vars

\* the steps of the manual run of a revision that has HTTP handlers modelled
ManualRun ==
    \/ fetchRemotePrompt("manual")
    \/ fetchRemotePrompt_Response("manual")
    \/ generateAndCacheContent("manual")
    \/ callOpenAIStyleAPI_Response("manual")
    \/ TEXT_CACHE_put_Apply("manual")
    \/ TEXT_CACHE_put_Reject("manual")
    \/ generateAndCacheContent_Return("manual")
    \/ RetryDelay_Elapsed("manual")
    \/ update_kv_text("manual")
    \/ get_external_prompt_Response("manual")
    \/ generate_text_with_llm("manual")
    \/ generate_text_with_llm_Response("manual")
    \/ update_kv_text_put_Apply("manual")
    \/ update_kv_text_put_Reject("manual")
    \/ update_kv_text_Return("manual")

\* the worker serving a request, and the update the request starts
NextFetch ==
    \/ /\ Listening
       /\ \E request \in Requests :
             \/ fetch_Options(request)
             \/ fetch_NotFound(request)
             \/ handleManualUpdate_Refuse(request)
             \/ handleManualUpdate(request)
             \/ handleGetContent(request)
    \/ TEXT_CACHE_get_Resolve
    \/ TEXT_CACHE_get_Reject
    \/ handleManualUpdate_Respond
    \/ ManualRun

SpecFetch == InitOf({"three", "index"}) /\ [][NextFetch]_vars

\* the requests that read the text
ReadRequests ==
    {request \in Requests : /\ request.method = "GET"
                            /\ request.pathname = "/"
                            /\ request.authorization = None}

\* an update started by the schedule or by hand, and the worker serving the
\* text once the update has ended
NextRead ==
    \/ Next
    \/ NextIndex
    \/ AfterUpdate /\ \E request \in ReadRequests : handleGetContent(request)
    \/ TEXT_CACHE_get_Resolve
    \/ TEXT_CACHE_get_Reject

SpecRead == InitOf({"three", "index"}) /\ [][NextRead]_vars

\* the steps of the scheduled run
ScheduledRun ==
    \/ fetchRemotePrompt("cron")
    \/ fetchRemotePrompt_Response("cron")
    \/ generateAndCacheContent("cron")
    \/ callOpenAIStyleAPI_Response("cron")
    \/ TEXT_CACHE_put_Apply("cron")
    \/ TEXT_CACHE_put_Reject("cron")
    \/ generateAndCacheContent_Return("cron")
    \/ RetryDelay_Elapsed("cron")
    \/ update_kv_text("cron")
    \/ get_external_prompt_Response("cron")
    \/ generate_text_with_llm("cron")
    \/ generate_text_with_llm_Response("cron")
    \/ update_kv_text_put_Apply("cron")
    \/ update_kv_text_put_Reject("cron")
    \/ update_kv_text_Return("cron")

\* the schedule starts an update; one request reads the text, before, while
\* or after the update runs
NextScheduled ==
    \/ scheduled
    \/ ScheduledRun
    \/ scheduled_then
    \/ scheduled_catch
    \/ http.pc = "idle" /\ \E request \in ReadRequests : handleGetContent(request)
    \/ TEXT_CACHE_get_Resolve
    \/ TEXT_CACHE_get_Reject

SpecScheduled == InitOf({"three", "index"}) /\ [][NextScheduled]_vars

\* the requests handleManualUpdate accepts with the exact header
AuthorizedRequests ==
    {request \in Requests : /\ request.method = "POST"
                            /\ request.pathname = "/update"
                            /\ request.authorization = Some(Bearer \o SecretText)}

\* an authorized POST /update starts the manual run and the schedule fires
\* while that run is under way: the two runs of the three-tier orchestrator
\* overlap, and the handler answers when the manual run has ended.  The
\* worker has all its secrets; the runs are followed as far as
\* MaxOverlapFailures failed attempts, counted over both.
NextUpdateOverlap ==
    \/ /\ Listening
       /\ \E request \in AuthorizedRequests : handleManualUpdate(request)
       /\ WithinOverlapBound'
    \/ scheduled /\ WithinOverlapBound'
    \/ scheduled_then /\ WithinOverlapBound'
    \/ scheduled_catch /\ WithinOverlapBound'
    \/ handleManualUpdate_Respond /\ WithinOverlapBound'
    \/ \E r \in Runs :
          \/ fetchRemotePrompt(r) /\ WithinOverlapBound'
          \/ fetchRemotePrompt_Response(r) /\ WithinOverlapBound'
          \/ generateAndCacheContent(r) /\ WithinOverlapBound'
          \/ callOpenAIStyleAPI_Response(r) /\ WithinOverlapBound'
          \/ TEXT_CACHE_put_Apply(r) /\ WithinOverlapBound'
          \/ TEXT_CACHE_put_Reject(r) /\ WithinOverlapBound'
          \/ generateAndCacheContent_Return(r) /\ WithinOverlapBound'
          \/ RetryDelay_Elapsed(r) /\ WithinOverlapBound'

SpecUpdateOverlap == InitOverlap /\ [][NextUpdateOverlap]_vars

----------------------------------------------------------------------------
(* Properties *)


CriticalText == "Critical Dependency Failure: Unable to fetch prompt."
ExhaustedText == "CRITICAL FAILURE: All strategies exhausted."

\* the prompt fetch of run r failed: the token is missing, or the source
\* answered with a status outside 200-299
PromptFetchFailed(r) ==
    \/ hist[r].promptCalls >= 1 /\ ~env.UPDATE_TOKEN
    \/ \E resp \in hist[r].promptResponses : resp.status \notin 200..299

\* C1: in the three-tier executeResilientUpdate the prompt is fetched exactly
\* once per run, before the first LLM invocation, whatever the LLM answers,
\* and the text the source returned is the dynamic prompt of every attempt,
\* the FINAL one included.
C1_PromptFetchedOnce ==
    \A r \in Runs :
        LET h == hist[r]
        IN  /\ h.promptCalls <= 1
            /\ h.promptRequests <= 1
            /\ Cardinality(h.promptResponses) <= 1
            /\ run[r].pc \notin {"idle", "fetchRemotePrompt"} => h.promptCalls = 1
            /\ h.attempts # << >> =>
                  /\ h.promptRequests = 1
                  /\ \E resp \in h.promptResponses :
                        h.userDynamics = {Some(resp.text)}

\* a run whose MAX_ATTEMPTS attempts and FINAL attempt all failed
C1_Witness ==
    \E r \in Runs :
        /\ run[r].pc = "threw"
        /\ Len(hist[r].attempts) = MAX_ATTEMPTS + 1
        /\ hist[r].attempts[MAX_ATTEMPTS + 1].tier = "FINAL"
        /\ hist[r].promptCalls = 1
        /\ hist[r].userDynamics = {Some("seed phrase")}

\* C3: in Stage 1 a failed attempt moves the current tier to FALLBACK exactly
\* when the tier was PRIMARY and the error carries status code 429; after
\* any other failure the tier is unchanged, and the next attempt of the loop
\* is given the current tier.
C3_EscalationRule ==
    [][\A r \in Runs :
        /\ (/\ hist'[r].failures = hist[r].failures + 1
            /\ hist[r].failures < MAX_ATTEMPTS)
           => run'[r].currentModelKey =
                 IF /\ run[r].currentModelKey = "PRIMARY"
                    /\ hist'[r].lastFailure[1].statusCode = Some(429)
                 THEN "FALLBACK"
                 ELSE run[r].currentModelKey
        /\ (/\ Len(hist'[r].attempts) = Len(hist[r].attempts) + 1
            /\ Len(hist'[r].attempts) <= MAX_ATTEMPTS)
           => hist'[r].attempts[Len(hist'[r].attempts)].tier = run[r].currentModelKey
      ]_vars

\* a PRIMARY attempt failed with status 500 and PRIMARY is retried
C3_Witness ==
    \E r \in Runs :
        /\ Len(hist[r].attempts) = 3
        /\ hist[r].failures = 2
        /\ hist[r].lastFailure[1].statusCode = Some(500)
        /\ \A i \in 1..3 : hist[r].attempts[i].tier = "PRIMARY"
        /\ run[r].pc = "awaitLLM"

\* C5: the FINAL tier is invoked once, as attempt MAX_ATTEMPTS + 1, when all
\* MAX_ATTEMPTS attempts of Stage 1 failed, and never otherwise; a run makes
\* at most MAX_ATTEMPTS + 1 LLM invocations and no Stage-1 attempt uses FINAL.
C5_FinalOnce ==
    \A r \in Runs :
        LET h == hist[r]
            n == Len(h.attempts)
        IN  /\ n <= MAX_ATTEMPTS + 1
            /\ h.llmRequests <= n
            /\ \A i \in 1..n : (h.attempts[i].tier = "FINAL") <=> (i = MAX_ATTEMPTS + 1)
            /\ n = MAX_ATTEMPTS + 1 => h.failures >= MAX_ATTEMPTS
            /\ (Terminal(r) /\ h.failures >= MAX_ATTEMPTS) => n = MAX_ATTEMPTS + 1
            /\ (Terminal(r) /\ h.failures < MAX_ATTEMPTS) => n <= MAX_ATTEMPTS

\* the FINAL attempt succeeded after MAX_ATTEMPTS failures
C5_Witness ==
    \E r \in Runs :
        /\ run[r].pc = "returned"
        /\ hist[r].failures = MAX_ATTEMPTS
        /\ Len(hist[r].attempts) = MAX_ATTEMPTS + 1
        /\ hist[r].attempts[MAX_ATTEMPTS + 1].tier = "FINAL"

\* C6: when the prompt fetch fails (missing token or a non-success answer)
\* the run has ended with the critical-dependency failure: no LLM
\* invocation, one call of the prompt fetch, the cache not written.
C6_PromptFailureAborts ==
    \A r \in Runs :
        PromptFetchFailed(r) =>
            /\ run[r].pc = "threw"
            /\ run[r].result = None
            /\ run[r].thrown # None
            /\ run[r].thrown[1].message.text = CriticalText
            /\ hist[r].attempts = << >>
            /\ hist[r].llmRequests = 0
            /\ hist[r].promptCalls = 1
            /\ hist[r].promptRequests <= 1
            /\ hist[r].puts = << >>
            /\ cache = hist[r].cacheAtStart

\* the prompt source answered 503
C6_Witness ==
    \E r \in Runs :
        /\ \E resp \in hist[r].promptResponses : resp.status = 503
        /\ run[r].pc = "threw"
        /\ hist[r].promptRequests = 1

\* C7: when all Stage-1 attempts and the FINAL attempt failed, the run has
\* thrown one error that quotes the error of attempt MAX_ATTEMPTS and the
\* error of the FINAL attempt.
C7_ExhaustedCarriesBoth ==
    \A r \in Runs :
        hist[r].failures = MAX_ATTEMPTS + 1 =>
            /\ run[r].pc = "threw"
            /\ run[r].result = None
            /\ run[r].thrown # None
            /\ run[r].thrown[1].message.text = ExhaustedText
            /\ run[r].thrown[1].message.causes =
                  <<hist[r].errAtLast[1].message, hist[r].errFinal[1].message>>

\* attempt 1 failed with 429, attempt MAX_ATTEMPTS with 500, FINAL had no key
C7_Witness ==
    \E r \in Runs :
        /\ hist[r].failures = MAX_ATTEMPTS + 1
        /\ hist[r].escalatedAt = 1
        /\ hist[r].errAtLast[1].statusCode = Some(500)
        /\ hist[r].errFinal = Some(ApiKeyError("GITHUB_API_KEY"))
        /\ run[r].pc = "threw"

\* the attempt limit of the deployed revision
AttemptLimit ==
    CASE impl = "three" -> MAX_ATTEMPTS
      [] impl = "two"   -> MAX_ATTEMPTS2
      [] impl = "index" -> RETRY_ATTEMPTS

\* C2: when attempt k of a run succeeds the run returns: the attempts made
\* are the k - 1 that failed and the one that succeeded, none follows (no
\* attempt k+1..N, no FINAL attempt), and the run wrote the cache exactly
\* once, with the text that attempt returned.
C2_SuccessStops ==
    \A r \in Runs :
        LET h == hist[r]
        IN  /\ Len(h.puts) <= 1
            /\ h.puts # << >> => run[r].pc \in {"awaitPutAck", "returned"}
            /\ run[r].pc = "returned" =>
                  /\ Len(h.attempts) = h.failures + 1
                  /\ h.succeededAt = Len(h.attempts)
                  /\ run[r].result # None
                  /\ h.puts = <<run[r].result[1].content>>
                  /\ h.succeededAt <= AttemptLimit =>
                        \A i \in 1..Len(h.attempts) : h.attempts[i].tier # "FINAL"

\* attempt 3 of 8 succeeded after two failures
C2_Witness ==
    \E r \in Runs :
        /\ impl = "three"
        /\ run[r].pc = "returned"
        /\ hist[r].succeededAt = 3
        /\ hist[r].failures = 2
        /\ hist[r].puts = << <<"a">> >>

\* C4: escalation is monotonic within a run: the attempts of the retry loop
\* never use PRIMARY after FALLBACK; every attempt of the loop after a
\* PRIMARY attempt that failed with 429 uses FALLBACK, and the current tier
\* is FALLBACK from then on.
C4_Monotonic ==
    \A r \in Runs :
        LET h == hist[r]
            n == IF Len(h.attempts) < AttemptLimit THEN Len(h.attempts) ELSE AttemptLimit
        IN  /\ \A i, j \in 1..n :
                  (i < j /\ h.attempts[i].tier = "FALLBACK") => h.attempts[j].tier = "FALLBACK"
            /\ h.escalatedAt # 0 =>
                  \A j \in (h.escalatedAt + 1)..n : h.attempts[j].tier = "FALLBACK"
            /\ (n >= 1 /\ h.attempts[n].tier = "FALLBACK") => run[r].currentModelKey = "FALLBACK"
            /\ (h.escalatedAt # 0 /\ h.escalatedAt < AttemptLimit)
                  => run[r].currentModelKey = "FALLBACK"

\* the first attempt failed with 429 and the loop ran to its end on FALLBACK
C4_Witness ==
    \E r \in Runs :
        /\ impl = "index"
        /\ hist[r].escalatedAt = 1
        /\ Len(hist[r].attempts) = RETRY_ATTEMPTS
        /\ hist[r].failures = RETRY_ATTEMPTS
        /\ \A j \in 2..RETRY_ATTEMPTS : hist[r].attempts[j].tier = "FALLBACK"

\* C8: every started run of executeResilientUpdate reaches a terminal state,
\* and a terminal state is a success with a result and no error, or a
\* failure with an error and no result.
C8_Terminates ==
    /\ \A r \in Runs : (run[r].pc # "idle") ~> Terminal(r)
    /\ [](\A r \in Runs :
            /\ run[r].pc = "returned" => run[r].result # None /\ run[r].thrown = None
            /\ run[r].pc = "threw" => run[r].thrown # None /\ run[r].result = None
            /\ ~Terminal(r) => run[r].result = None /\ run[r].thrown = None)

\* a run of the two-tier revision threw after its last attempt
C8_Witness ==
    \E r \in Runs :
        /\ impl = "two"
        /\ run[r].pc = "threw"
        /\ hist[r].failures = MAX_ATTEMPTS2

\* C9: a run that succeeded reports the tier of the attempt that succeeded
\* (the last one made) and, as content, the one text this run wrote to the
\* cache, which now holds it whatever it held before.
C9_ResultMatchesCache ==
    \A r \in Runs :
        run[r].pc = "returned" =>
            /\ run[r].result # None
            /\ run[r].thrown = None
            /\ run[r].result[1].model = hist[r].attempts[Len(hist[r].attempts)].tier
            /\ hist[r].puts = <<run[r].result[1].content>>
            /\ cache = Some(run[r].result[1].content)

\* the FINAL tier overwrote an earlier text
C9_Witness ==
    \E r \in Runs :
        /\ run[r].pc = "returned"
        /\ run[r].result = Some([model |-> "FINAL", content |-> <<"a">>])
        /\ hist[r].cacheAtStart = Some(<<"z">>)
        /\ cache = Some(<<"a">>)

\* C10: with a single run active, a run that threw left the cache as it was
\* when the run started, and wrote nothing.
C10_FailureKeepsCache ==
    \A r \in Runs :
        run[r].pc = "threw" =>
            /\ cache = hist[r].cacheAtStart
            /\ hist[r].puts = << >>

\* every attempt failed, the last one because the store rejected the put
C10_Witness ==
    \E r \in Runs :
        /\ run[r].pc = "threw"
        /\ hist[r].errFinal = Some(PutError)
        /\ hist[r].cacheAtStart = Some(<<"z">>)
        /\ cache = Some(<<"z">>)

\* C11: in run_update_with_retries and in the two-tier executeResilientUpdate,
\* as long as no LLM invocation of the run has failed with 429 or with a
\* server error, every attempt is made on PRIMARY and the current tier is
\* PRIMARY, whatever the prompt source answered.
C11_StaysOnPrimary ==
    \A r \in Runs :
        (impl \in {"index", "two"} /\ ~hist[r].llmOverloaded) =>
            /\ \A i \in 1..Len(hist[r].attempts) : hist[r].attempts[i].tier = "PRIMARY"
            /\ run[r].currentModelKey = "PRIMARY"

\* C12: in run_update_with_retries the prompt is fetched at most once in a
\* run, however many attempts are made, and a run whose prompt fetch failed
\* has ended in failure without any LLM request.
C12_IndexPromptOnce ==
    \A r \in Runs :
        impl = "index" =>
            /\ hist[r].promptCalls <= 1
            /\ hist[r].promptRequests <= 1
            /\ hist[r].promptFailures >= 1 =>
                  /\ run[r].pc = "threw"
                  /\ hist[r].llmRequests = 0

\* C13: run_update_with_retries makes at most RETRY_ATTEMPTS attempts, and a
\* run that threw made all of them and threw an error that is, or carries
\* the message of, the error of the last attempt.
C13_IndexCarriesLast ==
    \A r \in Runs :
        impl = "index" =>
            /\ Len(hist[r].attempts) <= RETRY_ATTEMPTS
            /\ run[r].pc = "threw" =>
                  /\ hist[r].failures = RETRY_ATTEMPTS
                  /\ hist[r].errAtLast # None
                  /\ \/ run[r].thrown = hist[r].errAtLast
                     \/ \E i \in 1..Len(run[r].thrown[1].message.causes) :
                           run[r].thrown[1].message.causes[i] = hist[r].errAtLast[1].message

\* the text of a header after 'Bearer '
AfterBearer(header) == SubSeq(header, Len(Bearer) + 1, Len(header))

\* the token a header submits: what follows 'Bearer ', up to the next space
SubmittedToken(header) ==
    LET rest == AfterBearer(header)
        n == Cardinality({i \in 1..Len(rest) : \A j \in 1..i : rest[j] # " "})
    IN  SubSeq(rest, 1, n)

\* the header is missing or does not start with 'Bearer '
Malformed(authorization) ==
    \/ authorization = None
    \/ ~StartsWith(authorization[1], Bearer)

\* an authorized POST /update
Authorized(request) ==
    /\ request.method = "POST"
    /\ request.pathname = "/update"
    /\ env.UPDATE_TOKEN
    /\ ~Malformed(request.authorization)
    /\ SubmittedToken(request.authorization[1]) = SecretText

\* C14: a request that is not an authorized POST /update (OPTIONS, the root
\* path, an unknown path, /update with a wrong method, a missing or malformed
\* header, a mismatched token or an unconfigured secret) starts no run, calls
\* neither the prompt source nor an LLM, and leaves the cache as it was.
C14_OnlyAuthorizedUpdates ==
    (http.request # None /\ ~Authorized(http.request[1])) =>
        /\ \A r \in Runs : run[r] = IdleRun /\ hist[r] = NoHistory
        /\ cache = http.cacheBefore
        /\ http.pc # "awaitUpdate"

\* a POST /update with a wrong token was refused and the cache kept its text
C14_Witness ==
    /\ http.pc = "done"
    /\ http.request = Some([method |-> "POST", pathname |-> "/update",
                            authorization |-> Some(Bearer \o <<"x">>)])
    /\ env.UPDATE_TOKEN
    /\ http.response[1].status = 403
    /\ cache = Some(<<"z">>)

\* what C15 says a request to /update gets: a status, or 0 for the run
ExpectedUpdateStatus(request) ==
    IF request.method # "POST" THEN 405
    ELSE IF ~env.UPDATE_TOKEN THEN 500
    ELSE IF Malformed(request.authorization) THEN 401
    ELSE IF SubmittedToken(request.authorization[1]) # SecretText THEN 403
    ELSE 0

\* C15: a request to /update that is not OPTIONS gets 405 if its method is
\* not POST, else 500 if UPDATE_TOKEN is not configured, else 401 if the
\* header is missing or does not start with 'Bearer ', else 403 if the
\* submitted token differs from the secret; the run is started exactly when
\* none of these applies.
C15_StatusOrder ==
    (/\ http.request # None
     /\ http.request[1].method # "OPTIONS"
     /\ http.request[1].pathname = "/update") =>
        LET expected == ExpectedUpdateStatus(http.request[1])
        IN  /\ expected # 0 =>
                  /\ http.pc = "done"
                  /\ http.response[1].status = expected
                  /\ run["manual"].pc = "idle"
            /\ expected = 0 =>
                  /\ run["manual"].pc # "idle"
                  /\ http.pc = "done" => Terminal("manual")

\* a POST without header got 500, not 401, because the secret is not set
C15_Witness ==
    /\ http.pc = "done"
    /\ http.request = Some([method |-> "POST", pathname |-> "/update",
                            authorization |-> None])
    /\ ~env.UPDATE_TOKEN
    /\ http.response[1].status = 500

\* C16: a POST /update starts a run only if its Authorization header is
\* exactly 'Bearer ' followed by the secret; with any other value the request
\* is answered 401 or 403 and no run starts.
C16_ExactBearerSecret ==
    (/\ http.request # None
     /\ http.request[1].method = "POST"
     /\ http.request[1].pathname = "/update"
     /\ env.UPDATE_TOKEN
     /\ http.request[1].authorization # Some(Bearer \o SecretText)) =>
        /\ run["manual"].pc = "idle"
        /\ http.pc = "done"
        /\ http.response[1].status \in {401, 403}

\* C17: once a run has written a text T to the cache, a request to the root
\* path whose read succeeds is answered 200 with T followed by one newline.
C17_RoundTrip ==
    \A r \in Runs :
        (/\ http.pc = "done"
         /\ http.readOutcome = "resolved"
         /\ Terminal(r)
         /\ hist[r].puts # << >>) =>
            /\ http.response[1].status = 200
            /\ http.response[1].body = hist[r].puts[Len(hist[r].puts)] \o <<"\n">>

\* C18: the text an LLM invocation returns, a run reports and the cache is
\* given is never empty, and after a run that succeeded a request to the
\* root path whose read succeeds is answered 200.
C18_NonEmptyContent ==
    \A r \in Runs :
        /\ run[r].generatedContent # None => run[r].generatedContent[1] # << >>
        /\ run[r].result # None => run[r].result[1].content # << >>
        /\ \A i \in 1..Len(hist[r].puts) : hist[r].puts[i] # << >>
        /\ (run[r].pc = "returned" /\ http.pc = "done" /\ http.readOutcome = "resolved")
              => http.response[1].status = 200

\* C19: a request to the root path makes one read; it is answered 200 with
\* the cached text and a newline when the cache holds a text that is not
\* empty, 503 with a placeholder when the cache holds nothing (or the empty
\* text), 500 when the read fails; the cache is left as it was.
C19_ReadOutcomes ==
    (http.request # None /\ http.request[1].pathname = "/"
        /\ http.request[1].method # "OPTIONS") =>
        /\ cache = http.cacheBefore
        /\ http.gets = 1
        /\ http.pc \in {"awaitGet", "done"}
        /\ http.pc = "done" =>
              LET response == http.response[1]
              IN  /\ http.readOutcome \in {"resolved", "rejected"}
                  /\ http.readOutcome = "rejected" => response.status = 500
                  /\ (http.readOutcome = "resolved" /\ ~Falsy(cache)) =>
                        /\ response.status = 200
                        /\ response.body = cache[1] \o <<"\n">>
                  /\ (http.readOutcome = "resolved" /\ Falsy(cache)) =>
                        /\ response.status = 503
                        /\ Len(response.body) = 1

\* after an update wrote "a", one read was answered 200 with "a" and a newline
C19_Witness ==
    /\ impl = "three"
    /\ http.pc = "done"
    /\ http.readOutcome = "resolved"
    /\ http.response = Some(TextResponse(200, <<"a", "\n">>))
    /\ cache = Some(<<"a">>)
    /\ \E r \in Runs : run[r].pc = "returned"

\* C20: a run is sequential.  An attempt starts only when the outcome of
\* every earlier attempt is known, and these outcomes are failures; every
\* attempt sends at most one LLM request, so at most one is in flight; the
\* FINAL attempt starts only after MAX_ATTEMPTS failures; in the three-tier
\* revision the prompt source has answered before the first attempt starts,
\* in index.js before the LLM request of the attempt is sent.
C20_Sequential ==
    \A r \in Runs :
        LET h == hist[r]
            known == h.failures + (IF h.succeededAt # 0 THEN 1 ELSE 0)
        IN  /\ Len(h.attempts) \in {known, known + 1}
            /\ Len(h.attempts) >= 1 => h.failures >= Len(h.attempts) - 1
            /\ h.llmRequests <= Len(h.attempts)
            /\ run[r].pc = "awaitLLM" => Len(h.attempts) = known + 1
            /\ \A i \in 1..Len(h.attempts) :
                  h.attempts[i].tier = "FINAL" =>
                      /\ i = MAX_ATTEMPTS + 1
                      /\ h.failures >= MAX_ATTEMPTS
            /\ (impl = "three" /\ Len(h.attempts) >= 1) =>
                  /\ h.promptCalls = 1
                  /\ h.promptRequests = 1
                  /\ \E resp \in h.promptResponses : ResponseOk(resp.status)
            /\ (impl = "index" /\ run[r].pc = "awaitLLM") =>
                  /\ run[r].dynamicPrompt # None
                  /\ h.promptCalls = Len(h.attempts)
                  /\ h.llmRequests <= h.promptRequests

\* the FINAL attempt waits for its LLM answer: eight attempts failed before
\* it, each after an LLM request of its own
C20_Witness ==
    \E r \in Runs :
        /\ impl = "three"
        /\ run[r].pc = "awaitLLM"
        /\ run[r].stage = "final"
        /\ Len(hist[r].attempts) = MAX_ATTEMPTS + 1
        /\ hist[r].failures = MAX_ATTEMPTS
        /\ hist[r].llmRequests = MAX_ATTEMPTS + 1

\* the texts callOpenAIStyleAPI returns for the responses it accepts
GeneratedTexts ==
    {callOpenAIStyleAPI_Result(resp) :
        resp \in {a \in LLMResponses : callOpenAIStyleAPI_Error(a) = None}}

\* run r made the latest of the writes the store applied
WroteLast(r) ==
    /\ hist[r].putSeq # << >>
    /\ hist[r].putSeq[Len(hist[r].putSeq)] = PutsApplied

\* C21: a scheduled and a manual run overlap.  In every interleaving the
\* cache holds the value from before the runs as long as neither has written,
\* and otherwise exactly the whole text that one invocation of
\* generateAndCacheContent of one of the runs generated and wrote: the text
\* of the run that wrote last, never a blend or a part of texts.  A run
\* writes once at most, and the invocation that wrote succeeds.  When both
\* runs have ended the cache holds the content of the run that wrote last.
C21_LastWriteWins ==
    /\ \A r \in Runs :
          /\ Len(hist[r].puts) <= 1
          /\ hist[r].puts # << >> =>
                /\ run[r].pc \in {"awaitPutAck", "returned"}
                /\ run[r].generatedContent = Some(hist[r].puts[1])
                /\ hist[r].puts[1] \in GeneratedTexts
    /\ PutsApplied = 0 =>
          \A r \in Runs : run[r].pc # "idle" => cache = hist[r].cacheAtStart
    /\ PutsApplied > 0 =>
          \E r \in Runs :
              /\ WroteLast(r)
              /\ cache = Some(hist[r].puts[Len(hist[r].puts)])
              /\ \A o \in Runs \ {r} : ~WroteLast(o)
              /\ (\A o \in Runs : Terminal(o)) =>
                    /\ run[r].pc = "returned"
                    /\ cache = Some(run[r].result[1].content)

\* both runs have ended, each after writing a text of its own: the scheduled
\* run wrote "a" first, the manual run wrote "aa" last, and the cache holds "aa"
C21_Witness ==
    /\ run["cron"].pc = "returned"
    /\ run["manual"].pc = "returned"
    /\ hist["cron"].puts = << <<"a">> >>
    /\ hist["manual"].puts = << <<"a", "a">> >>
    /\ hist["cron"].putSeq = <<1>>
    /\ hist["manual"].putSeq = <<2>>
    /\ hist["manual"].cacheAtStart = Some(<<"z">>)
    /\ cache = Some(<<"a", "a">>)

\* run r is about to make an attempt whose tier has no API key in env
\* (three-tier: env[MODEL_REGISTRY[modelKey].apiKeyEnv]; index.js:
\* env.GEMINI_API_KEY, whatever the model)
CredentialMissing(r) ==
    /\ impl \in {"three", "index"}
    /\ run[r].pc = "generate"
    /\ ~env[IF impl = "three" THEN MODEL_REGISTRY[run[r].modelKey].apiKeyEnv
            ELSE "GEMINI_API_KEY"]

\* C22: an attempt whose tier has no API key fails without a request to the
\* LLM endpoint: the step that makes the attempt sends nothing and does not
\* wait for an answer, it adds one failure, it uses up one attempt of the
\* budget (in the retry loop the attempt number goes up by one, after the
\* delay where the loop waits; in the last-resort stage the run ends) and it
\* leaves the current tier as it was.
C22_MissingCredential ==
    [][\A r \in Runs :
          (CredentialMissing(r) /\ run'[r] # run[r]) =>
              /\ hist'[r].llmRequests = hist[r].llmRequests
              /\ run'[r].pc # "awaitLLM"
              /\ hist'[r].failures = hist[r].failures + 1
              /\ hist'[r].puts = hist[r].puts
              /\ cache' = cache
              /\ run'[r].currentModelKey = run[r].currentModelKey
              /\ IF run[r].stage # "retry" THEN run'[r].pc = "threw"
                 ELSE IF run'[r].pc = "delay"
                 THEN /\ run'[r].attempt = run[r].attempt
                      /\ LoopNext(run'[r]).attempt = run[r].attempt + 1
                 ELSE run'[r].attempt = run[r].attempt + 1
              /\ Len(hist'[r].attempts) <=
                    IF impl = "three" THEN MAX_ATTEMPTS + 1 ELSE RETRY_ATTEMPTS]_vars

\* with no GEMINI_API_KEY two attempts of a three-tier run have failed: no
\* LLM request was sent, the third attempt is next and the tier is PRIMARY
C22_Witness ==
    \E r \in Runs :
        /\ impl = "three"
        /\ ~env.GEMINI_API_KEY
        /\ hist[r].failures = 2
        /\ hist[r].lastFailure = Some(ApiKeyError("GEMINI_API_KEY"))
        /\ hist[r].llmRequests = 0
        /\ run[r].attempt = 3
        /\ run[r].currentModelKey = "PRIMARY"

\* attempt i of run r has failed with a configuration error: in the
\* three-tier revision the API key of its tier is missing, in index.js
\* UPDATE_TOKEN is (an attempt of index.js checks the token first)
ConfigurationFailure(r, i) ==
    /\ i <= hist[r].failures
    /\ \/ /\ impl = "three"
          /\ ~env[MODEL_REGISTRY[hist[r].attempts[i].tier].apiKeyEnv]
       \/ /\ impl = "index"
          /\ ~env.UPDATE_TOKEN

\* C23: a configuration error is not retried.  Once an attempt of a run has
\* failed with a missing secret or credential, that attempt is the last one
\* the run makes, and the run does not end with a result.
C23_NotRetried ==
    \A r \in Runs :
        \A i \in 1..Len(hist[r].attempts) :
            ConfigurationFailure(r, i) =>
                /\ Len(hist[r].attempts) = i
                /\ run[r].pc # "returned"

\* C24: an authorized POST /update awaits the run.  It has no response while
\* the run is not terminal; its response is 200 with success:true and the
\* model and content of the run's result exactly when the run returned, and
\* 500 with success:false and the message of the error exactly when the run
\* threw.
C24_AwaitedResult ==
    (http.request # None /\ Authorized(http.request[1])) =>
        LET rec == run["manual"]
        IN  /\ http.response # None => Terminal("manual")
            /\ http.pc = "awaitUpdate" => http.response = None
            /\ http.pc = "done" =>
                  LET response == http.response[1]
                  IN  /\ response.status \in {200, 500}
                      /\ response.status = 200 <=> rec.pc = "returned"
                      /\ response.status = 500 <=> rec.pc = "threw"
                      /\ rec.pc = "returned" =>
                            response.body =
                                <<"success: true", "model_used: ", rec.result[1].model,
                                  "new_content: ">> \o rec.result[1].content \o <<"\n">>
                      /\ rec.pc = "threw" =>
                            response.body =
                                <<"success: false", "message: ",
                                  rec.thrown[1].message.text, "\n">>

\* an authorized update was answered 200 with the tier and the text of the
\* run's result, which is the text in the cache
C24_Witness ==
    /\ http.pc = "done"
    /\ Authorized(http.request[1])
    /\ run["manual"].pc = "returned"
    /\ run["manual"].result = Some([model |-> "FALLBACK", content |-> <<"a">>])
    /\ http.response = Some(JsonResponse(200, <<"success: true", "model_used: ", "FALLBACK",
                                            "new_content: ", "a", "\n">>))
    /\ cache = Some(<<"a">>)

\* C25: a run started by the schedule is detached.  The scheduled handler
\* has returned in every state of the run, the states where the run is not
\* terminal included; the promise it gave to ctx.waitUntil is never rejected;
\* when the run threw, the promise is fulfilled by the callback that logs the
\* error's message, which is all that is left of the error: the response of
\* a request served meanwhile or afterwards comes from the read alone and
\* carries nothing of the error.
C25_Detached ==
    /\ run["cron"].pc # "idle" => sched.pc = "returned"
    /\ sched.waitUntil # "rejected"
    /\ sched.waitUntil = "pending" => run["cron"].pc # "idle"
    /\ (sched.waitUntil = "fulfilled" /\ run["cron"].pc = "threw") =>
          sched.log = << <<"failed", run["cron"].thrown[1].message.text>> >>
    /\ http.response # None =>
          /\ http.readOutcome \in {"resolved", "rejected"}
          /\ http.response[1].status = 500 <=> http.readOutcome = "rejected"
          /\ http.readOutcome = "rejected" => http.response[1] = ReadFailureResponse
          /\ run["cron"].pc = "threw" =>
                \A i \in 1..Len(http.response[1].body) :
                    http.response[1].body[i] # run["cron"].thrown[1].message.text

\* the scheduled run threw after its last attempt, the error was logged and
\* the promise fulfilled; a request read the text of before the run
C25_Witness ==
    /\ run["cron"].pc = "threw"
    /\ sched = [pc |-> "returned", waitUntil |-> "fulfilled",
                log |-> << <<"failed", run["cron"].thrown[1].message.text>> >>]
    /\ hist["cron"].llmRequests >= 1
    /\ http.pc = "done"
    /\ http.response = Some(TextResponse(200, <<"z", "\n">>))

\* C26: routing.  An OPTIONS request, whatever its path and its header, is
\* answered 204 with no body and reaches no handler: no read, no run.
\* Otherwise '/' goes to the read handler (one read of the cache; 200, 503 or
\* 500), '/update' to the manual-update handler (a refusal with 405, 500, 401
\* or 403, or a run and then 200 or 500) and any other path is answered 404.
C26_Routing ==
    http.request # None =>
        LET request == http.request[1]
            answered == http.pc = "done"
            status == http.response[1].status
        IN  IF request.method = "OPTIONS"
            THEN /\ http.response = Some(Response(204, << >>))
                 /\ http.gets = 0
                 /\ run["manual"].pc = "idle"
            ELSE IF request.pathname = "/"
            THEN /\ http.gets = 1
                 /\ run["manual"].pc = "idle"
                 /\ answered => status \in {200, 503, 500}
            ELSE IF request.pathname = "/update"
            THEN /\ http.gets = 0
                 /\ IF run["manual"].pc = "idle"
                    THEN answered /\ status \in {405, 500, 401, 403}
                    ELSE answered => status \in {200, 500}
            ELSE /\ http.response = Some(Response(404, <<"Not Found\n">>))
                 /\ http.gets = 0
                 /\ run["manual"].pc = "idle"

\* an OPTIONS request to /update that carries the right token was answered
\* 204 and started no run
C26_Witness ==
    /\ http.pc = "done"
    /\ http.request = Some([method |-> "OPTIONS", pathname |-> "/update",
                            authorization |-> Some(Bearer \o SecretText)])
    /\ env.UPDATE_TOKEN
    /\ http.response[1].status = 204
    /\ run["manual"].pc = "idle"

\* C27: every response of the worker carries the three CORS headers, with
\* the values of CORS_HEADERS: the 204, 404, 405, 401 and 403, the 200 and
\* 503 of the read, the 200 and 500 of the update, the 500 of an unset
\* UPDATE_TOKEN and the 500 built when the read throws.
C27_CorsOnEveryResponse ==
    http.response # None =>
        \A name \in DOMAIN CORS_HEADERS :
            /\ name \in DOMAIN http.response[1].headers
            /\ http.response[1].headers[name] = CORS_HEADERS[name]

\* the read threw in the three-tier worker: the catch of fetch answered 500
\* with the CORS headers
C27_Witness ==
    /\ impl = "three"
    /\ http.pc = "done"
    /\ http.readOutcome = "rejected"
    /\ http.response[1].status = 500
    /\ http.response[1].headers = CORS_HEADERS

\* C28: in the three-tier executeResilientUpdate, the delay being positive,
\* one delay is waited between a failed Stage-1 attempt and the next Stage-1
\* attempt: Stage-1 attempt number n starts after n - 1 delays, its failures
\* being as many.  No delay follows the last Stage-1 attempt, so the FINAL
\* attempt starts after MAX_ATTEMPTS - 1 delays, and none follows an attempt
\* that succeeded.
C28_OneDelayBetweenAttempts ==
    (impl = "three" /\ DELAY_SECONDS > 0) =>
        \A r \in Runs :
            LET h == hist[r]
                waiting == run[r].pc = "delay"
                Min(a, b) == IF a <= b THEN a ELSE b
            IN  /\ h.delays = Min(h.failures, MAX_ATTEMPTS - 1) - (IF waiting THEN 1 ELSE 0)
                /\ waiting =>
                      /\ run[r].stage = "retry"
                      /\ h.failures = run[r].attempt
                      /\ run[r].attempt < MAX_ATTEMPTS
                /\ (run[r].stage = "retry" /\ ~waiting /\ ~Terminal(r)) =>
                      /\ h.delays = run[r].attempt - 1
                      /\ h.failures = run[r].attempt - 1
                /\ run[r].stage = "final" => h.delays = MAX_ATTEMPTS - 1
                /\ h.succeededAt # 0 =>
                      /\ ~waiting
                      /\ h.delays = Min(h.succeededAt, MAX_ATTEMPTS) - 1

\* the FINAL attempt waits for its LLM answer after eight failures and seven
\* delays
C28_Witness ==
    \E r \in Runs :
        /\ impl = "three"
        /\ run[r].stage = "final"
        /\ run[r].pc = "awaitLLM"
        /\ hist[r].failures = MAX_ATTEMPTS
        /\ hist[r].delays = MAX_ATTEMPTS - 1

\* the keys of the registry of the deployed revision
RegistryKeys ==
    IF impl = "three" THEN DOMAIN MODEL_REGISTRY
    ELSE IF impl = "index" THEN DOMAIN MODEL_CONFIG
    ELSE {"PRIMARY", "FALLBACK"}

\* C29: in every state of a run the current tier is a key of the registry.
\* The tier the retry loop holds is PRIMARY or FALLBACK; the tier handed to
\* an attempt is that one during the retry loop and FINAL exactly in the
\* last-resort stage, which only the three-tier revision has; every attempt
\* made was given a key of the registry, and no attempt threw the
\* unknown-tier error.
C29_TierInRegistry ==
    \A r \in Runs :
        /\ run[r].currentModelKey \in {"PRIMARY", "FALLBACK"}
        /\ run[r].currentModelKey \in RegistryKeys
        /\ run[r].modelKey \in RegistryKeys
        /\ run[r].stage = "retry" => run[r].modelKey \in {"PRIMARY", "FALLBACK"}
        /\ run[r].modelKey = "FINAL" <=> run[r].stage = "final"
        /\ run[r].stage = "final" => impl = "three"
        /\ \A i \in 1..Len(hist[r].attempts) :
              /\ hist[r].attempts[i].tier \in RegistryKeys
              /\ hist[r].attempts[i].tier = "FINAL" <=>
                    (impl = "three" /\ i = MAX_ATTEMPTS + 1)
        /\ ~hist[r].unknownTier
        /\ hist[r].lastFailure # None =>
              hist[r].lastFailure[1].message.text # UnknownModelError("").message.text

\* the FINAL attempt of a three-tier run is under way after attempts on
\* PRIMARY and, from the second on, on FALLBACK
C29_Witness ==
    \E r \in Runs :
        /\ impl = "three"
        /\ run[r].stage = "final"
        /\ run[r].modelKey = "FINAL"
        /\ run[r].currentModelKey = "FALLBACK"
        /\ Len(hist[r].attempts) = MAX_ATTEMPTS + 1
        /\ hist[r].attempts[1].tier = "PRIMARY"
        /\ hist[r].attempts[2].tier = "FALLBACK"
        /\ hist[r].attempts[MAX_ATTEMPTS + 1].tier = "FINAL"

C32_SuccessAfterWrite ==
    /\ [](\A r \in Runs :
             /\ run[r].pc = "returned" =>
                   /\ hist[r].puts # << >>
                   /\ hist[r].puts[Len(hist[r].puts)] = run[r].result[1].content
                   /\ hist[r].succeededAt = Len(hist[r].attempts)
             /\ run[r].pc # "returned" => run[r].result = None
             /\ (impl = "three" /\ env.GEMINI_API_KEY /\ env.GITHUB_API_KEY) =>
                   hist[r].llmRequests = Len(hist[r].attempts))
    /\ [][\A r \in Runs :
             (run[r].pc = "awaitPut" /\ run'[r] # run[r] /\ run'[r].pc # "awaitPutAck") =>
                 /\ cache' = cache
                 /\ hist'[r].puts = hist[r].puts
                 /\ hist'[r].failures = hist[r].failures + 1
                 /\ impl = "three" => hist'[r].lastFailure[1].statusCode = None
                 /\ run'[r].currentModelKey = run[r].currentModelKey
                 /\ run'[r].generatedContent = None
                 /\ run'[r].result = None
                 /\ run'[r].pc # "returned"]_vars

\* a three-tier run returned "a" from its second attempt on PRIMARY: the
\* store had rejected the put of the first attempt, and the LLM was asked
\* twice
C32_Witness ==
    \E r \in Runs :
        /\ impl = "three"
        /\ run[r].pc = "returned"
        /\ hist[r].lastFailure = Some(PutError)
        /\ hist[r].failures = 1
        /\ hist[r].llmRequests = 2
        /\ hist[r].attempts = <<[tier |-> "PRIMARY"], [tier |-> "PRIMARY"]>>
        /\ hist[r].puts = << <<"a">> >>
        /\ run[r].result = Some([model |-> "PRIMARY", content |-> <<"a">>])

====
